---- MODULE Spec2Model ----
(***************************************************************************)
(* A model of tachi-fetch: the art registry and art processing (build.rs), *)
(* the EDID decoder and connector scan (display.rs), the /proc/meminfo     *)
(* and /proc/cpuinfo scanners (proc.rs), theme detection (theme.rs), the   *)
(* CPU label and distribution name (os.rs), number parsing (utils.rs) and  *)
(* the collector and compositor of main (main.rs, os.rs, shell.rs).        *)
(* Strings are sequences of characters; Rust's 0-based index i is the      *)
(* sequence index i + 1.                                                   *)
(***************************************************************************)
EXTENDS Integers, Sequences, FiniteSets, TLC

VARIABLES
    mode,          \* which part of the program this behaviour exercises
    logo_source,   \* the logo definitions in catalogue order (build input)
    LOGOS,         \* the generated table, <<>> before the build step ran
    bs_impl,       \* which std binary_search_by the toolchain ships
    distro_name,   \* the identifier last looked up
    found,         \* the result of the last find_logo
    edid_made,     \* how the block was made: whether it encodes a resolution, and which
    edid,          \* the bytes read from a connector's edid file
    resolution,    \* what parse_edid_resolution made of them
    mem_made,      \* how the meminfo buffer was made: its lines, or its six amounts
    data,          \* the bytes of the mapped /proc/meminfo
    meminfo,       \* the scanner's locals and its result, once it has run
    mmap_ok,       \* whether /proc/meminfo could be opened and mapped
    sysinfo,       \* what the sysinfo call reports: totalram, freeram, mem_unit
    memory_info,   \* what get_memory_info returned: (used, total), once it has run
    pc,            \* the statement of main (or collect_system_info) to run next
    environ,       \* the process environment: variable name -> value or Unset
    shell_path,    \* main's shell_path
    ENV_CACHE,     \* the Lazy cell: whether initialised, its map, initialiser runs
    lookups,       \* every get_env_var call so far: name, value, cell state before
    worker,        \* per worker thread: its state and the value it returned
    joined,        \* the workers whose join has returned in main
    locals,        \* the locals of collect_system_info
    info,          \* main's SysInfo
    collected,     \* the SysInfo as collect_system_info returned it
    info_lines,    \* main's info_lines
    rows,          \* the number of rows printed to stdout
    elapsed_shown, \* whether the elapsed-time line went to stderr
    drm_exists,    \* whether /sys/class/drm exists
    connectors,    \* the entries of /sys/class/drm: name, status file, edid file
    drm_order,     \* the order in which the resolutions map is iterated
    screen_resolution, \* what get_screen_resolution returned
    logo_def,      \* one logo definition of the catalogue: colors and ascii_art
    processed,     \* the ProcessedLogo made of it: ascii_art, max_line_length
    art_kind,      \* which art the compositor is given: static text or generated
    art_info,      \* the info lines the compositor is given
    screen,        \* the compositor's locals and the rows it printed
    theme_setup,   \* what a detection thread finds: variable, desktop, tools, files
    theme_found,   \* what the detection returned, and the sources it consulted
    cpuinfo_model, \* the text after the model name tag of /proc/cpuinfo
    model_name,    \* get_cpu_info's model_name, once the label was cut
    release_files, \* /etc/os-release (or its absence) and the marker files present
    distribution,  \* what get_distribution_name returned
    scan_input,    \* the scanner under way and the buffer it is given
    scan,          \* the scanner's position, locals and reads so far
    number_input,  \* the buffer and offset given to parse_number_after
    number         \* what parse_number_after returned

logoVars == <<logo_source, LOGOS, bs_impl, distro_name, found>>
edidVars == <<edid_made, edid, resolution>>
memVars == <<mem_made, data, meminfo, mmap_ok, sysinfo, memory_info>>
mainVars == <<pc, environ, shell_path, ENV_CACHE, lookups, worker, joined, locals, info,
              collected, info_lines, rows, elapsed_shown>>
drmVars == <<drm_exists, connectors, drm_order, screen_resolution>>
artVars == <<logo_def, processed, art_kind, art_info, screen>>
themeVars == <<theme_setup, theme_found>>
cpuVars == <<cpuinfo_model, model_name>>
distroVars == <<release_files, distribution>>
scanVars == <<scan_input, scan>>
numberVars == <<number_input, number>>
parseVars == <<themeVars, cpuVars, distroVars, scanVars, numberVars>>
nonMainVars == <<mode, logoVars, edidVars, memVars, drmVars, artVars, parseVars>>
vars == <<mode, logoVars, edidVars, memVars, mainVars, drmVars, artVars, parseVars>>

(***************************************************************************)
(* Generic helpers.                                                        *)
(***************************************************************************)
None == [some |-> FALSE]
Some(v) == [some |-> TRUE, val |-> v]

\* s[i] of Rust for a sequence held 1-based
At(s, i) == s[i + 1]

\* str::starts_with
StartsWith(s, p) == Len(p) <= Len(s) /\ SubSeq(s, 1, Len(p)) = p

\* Ord for str: lexicographic comparison of the byte sequences
RECURSIVE StrCmp(_, _)
StrCmp(a, b) ==
    IF a = <<>> /\ b = <<>> THEN "Equal"
    ELSE IF a = <<>> THEN "Less"
    ELSE IF b = <<>> THEN "Greater"
    ELSE IF Head(a) < Head(b) THEN "Less"
    ELSE IF Head(a) > Head(b) THEN "Greater"
    ELSE StrCmp(Tail(a), Tail(b))

\* the decimal digits of n, as format!("{}", n) writes them
Digits == <<"0", "1", "2", "3", "4", "5", "6", "7", "8", "9">>

RECURSIVE Dec(_)
Dec(n) == IF n < 10 THEN <<Digits[n + 1]>> ELSE Append(Dec(n \div 10), Digits[(n % 10) + 1])

Max(a, b) == IF a >= b THEN a ELSE b

(***************************************************************************)
(* Text scanner: proc.rs                                                   *)
(***************************************************************************)
mem_total_tag == <<"M", "e", "m", "T", "o", "t", "a", "l", ":">>
mem_free_tag == <<"M", "e", "m", "F", "r", "e", "e", ":">>
mem_available_tag == <<"M", "e", "m", "A", "v", "a", "i", "l", "a", "b", "l", "e", ":">>

\* byte counts exceed TLC's 32-bit integers, so a u64 byte count is held in
\* base 1024: [hi, lo] is hi * 1024 + lo with lo < 1024
Bytes(hi, lo) == [hi |-> hi, lo |-> lo]
ZeroBytes == Bytes(0, 0)

\* val * 1024
KbToBytes(val) == Bytes(val, 0)

\* a > b on u64
BytesGt(a, b) == a.hi > b.hi \/ (a.hi = b.hi /\ a.lo > b.lo)

\* a - b on u64, for a >= b
BytesSub(a, b) ==
    IF a.lo >= b.lo THEN Bytes(a.hi - b.hi, a.lo - b.lo)
    ELSE Bytes(a.hi - b.hi - 1, a.lo + 1024 - b.lo)

IsDigit(c) == \E d \in 1..10 : Digits[d] = c
DigitVal(c) == (CHOOSE d \in 1..10 : Digits[d] = c) - 1

\* while pos < data.len() && (data[pos] == b' ' || data[pos] == b'\t') { pos += 1 }
RECURSIVE SkipBlanks(_, _)
SkipBlanks(d, pos) ==
    IF pos < Len(d) /\ At(d, pos) \in {" ", "\t"} THEN SkipBlanks(d, pos + 1) ELSE pos

\* while pos < data.len() && data[pos] >= b'0' && data[pos] <= b'9' { pos += 1 }
RECURSIVE SkipDigits(_, _)
SkipDigits(d, pos) ==
    IF pos < Len(d) /\ IsDigit(At(d, pos)) THEN SkipDigits(d, pos + 1) ELSE pos

\* while pos < data.len() && data[pos] != b'\n' { pos += 1 }
RECURSIVE SkipLine(_, _)
SkipLine(d, pos) ==
    IF pos < Len(d) /\ At(d, pos) # "\n" THEN SkipLine(d, pos + 1) ELSE pos

\* s.parse::<u64>() of a run of digits: an error for the empty run
RECURSIVE DigitsValue(_)
DigitsValue(s) ==
    IF s = <<>> THEN 0 ELSE DigitsValue(SubSeq(s, 1, Len(s) - 1)) * 10 + DigitVal(s[Len(s)])

ParseU64(s) == IF s = <<>> THEN None ELSE Some(DigitsValue(s))

\* pos + tag.len() < data.len() && &data[pos..pos + tag.len()] == tag
TagAt(d, pos, tag) ==
    /\ pos + Len(tag) < Len(d)
    /\ SubSeq(d, pos + 1, pos + Len(tag)) = tag

\* the body of a tag branch: skip blanks, take the digits, parse them
FieldAfter(d, pos, tag, old) ==
    LET start == SkipBlanks(d, pos + Len(tag))
        end == SkipDigits(d, start)
        val == ParseU64(SubSeq(d, start + 1, end))
    IN  [pos |-> end, val |-> IF val.some THEN KbToBytes(val.val) ELSE old]

\* the scanning loop of parse_meminfo, from position pos with the locals given
RECURSIVE MemLoop(_, _, _, _, _)
MemLoop(d, pos, total, free, available) ==
    IF pos >= Len(d) THEN [total |-> total, free |-> free, available |-> available]
    ELSE IF total = ZeroBytes /\ TagAt(d, pos, mem_total_tag)
    THEN LET f == FieldAfter(d, pos, mem_total_tag, total)
         IN  MemLoop(d, f.pos, f.val, free, available)
    ELSE IF available = ZeroBytes /\ TagAt(d, pos, mem_available_tag)
    THEN LET f == FieldAfter(d, pos, mem_available_tag, available)
         IN  MemLoop(d, f.pos, total, free, f.val)
    ELSE IF free = ZeroBytes /\ TagAt(d, pos, mem_free_tag)
    THEN LET f == FieldAfter(d, pos, mem_free_tag, free)
         IN  MemLoop(d, f.pos, total, f.val, available)
    ELSE LET next == SkipLine(d, pos) + 1
         IN  IF BytesGt(total, ZeroBytes)
                /\ (BytesGt(available, ZeroBytes) \/ BytesGt(free, ZeroBytes))
             THEN [total |-> total, free |-> free, available |-> available]
             ELSE MemLoop(d, next, total, free, available)

\* mutant: total - free_mem without the comparison; the wrapped difference of
\* a smaller total shows as a negative high limb
parse_meminfo_unclamped(d) ==
    LET l == MemLoop(d, 0, ZeroBytes, ZeroBytes, ZeroBytes)
        free_mem == IF BytesGt(l.available, ZeroBytes) THEN l.available ELSE l.free
    IN  [used |-> BytesSub(l.total, free_mem), total |-> l.total, free |-> l.free,
         available |-> l.available]

\* parse_meminfo: (used_mem, total), with the locals of the scan kept beside
parse_meminfo(d) ==
    LET l == MemLoop(d, 0, ZeroBytes, ZeroBytes, ZeroBytes)
        free_mem == IF BytesGt(l.available, ZeroBytes) THEN l.available ELSE l.free
        used_mem == IF BytesGt(l.total, free_mem) THEN BytesSub(l.total, free_mem) ELSE ZeroBytes
    IN  [used |-> used_mem, total |-> l.total, free |-> l.free, available |-> l.available]

\* n as a u64 byte count
ToBytes(n) == Bytes(n \div 1024, n % 1024)

\* proc::fast_parse_meminfo, the Result get_memory_info matches on (Ok as
\* Some, Err as None): an error when the file cannot be mapped or the scan
\* leaves total at 0, else the scanner's (used, total)
fast_parse_meminfo(mapped, d) ==
    IF ~mapped THEN None
    ELSE LET r == parse_meminfo(d)
         IN  IF r.total = ZeroBytes THEN None
             ELSE Some([used |-> r.used, total |-> r.total])

\* mutant: the fallback hands back the free amount as the used one
get_memory_info_free_as_used(mapped, d, si) ==
    LET parsed == fast_parse_meminfo(mapped, d)
    IN  IF parsed.some THEN parsed.val
        ELSE [used |-> ToBytes(si.freeram * si.mem_unit),
              total |-> ToBytes(si.totalram * si.mem_unit)]

\* get_memory_info: the parsed pair, or total and total - free of sysinfo
get_memory_info(mapped, d, si) ==
    LET parsed == fast_parse_meminfo(mapped, d)
        total == si.totalram * si.mem_unit
        free == si.freeram * si.mem_unit
    IN  IF parsed.some THEN parsed.val
        ELSE [used |-> ToBytes(total - free), total |-> ToBytes(total)]

\* sysinfo results: the kernel reports freeram <= totalram and totalram > 0
SysinfoSamples ==
    {[totalram |-> 4096, freeram |-> 1000, mem_unit |-> 1],
     [totalram |-> 3000, freeram |-> 3000, mem_unit |-> 4096],
     [totalram |-> 4096, freeram |-> 0, mem_unit |-> 4096]}

\* bound: number of lines of a meminfo buffer
MaxMemLines == 3

\* the lines the buffers are made of: plain fields, a label after other
\* characters, a label right after a number, a label without a number, a zero
\* amount, a last line without its newline
MemLines == <<
    <<"M", "e", "m", "T", "o", "t", "a", "l", ":", " ", "1", "0", "0", " ", "k", "B", "\n">>,
    <<"M", "e", "m", "F", "r", "e", "e", ":", " ", "3", "0", " ", "k", "B", "\n">>,
    <<"M", "e", "m", "A", "v", "a", "i", "l", "a", "b", "l", "e", ":", "\t", "4", "0", " ", "k", "B", "\n">>,
    <<"B", "u", "f", "f", "e", "r", "s", ":", " ", "7", " ", "k", "B", "\n">>,
    <<"S", "w", "a", "p", "M", "e", "m", "F", "r", "e", "e", ":", " ", "9", " ", "k", "B", "\n">>,
    <<"M", "e", "m", "T", "o", "t", "a", "l", ":", " ", "2", "0", "0", "M", "e", "m", "F", "r", "e", "e", ":", " ", "5", "0", " ", "k", "B", "\n">>,
    <<"C", "a", "c", "h", "e", "d", ":", " ", "5", " ", "M", "e", "m", "A", "v", "a", "i", "l", "a", "b", "l", "e", ":", " ", "8", " ", "k", "B", "\n">>,
    <<"M", "e", "m", "F", "r", "e", "e", ":", "\n">>,
    <<"M", "e", "m", "T", "o", "t", "a", "l", ":", " ", "0", " ", "k", "B", "\n">>,
    <<"M", "e", "m", "F", "r", "e", "e", ":", " ", "6", "0">> >>

RECURSIVE Concat(_)
Concat(ss) == IF ss = <<>> THEN <<>> ELSE Head(ss) \o Concat(Tail(ss))

LineChoices == UNION {[1..n -> 1..Len(MemLines)] : n \in 0..MaxMemLines}

\* "<label> <amount> kB\n"
KbLine(label, amount) == label \o <<" ">> \o Dec(amount) \o <<" ", "k", "B", "\n">>

\* a buffer with the six amounts of the memory formula, in /proc/meminfo order
FullMeminfo(m) ==
    KbLine(mem_total_tag, m.total) \o KbLine(mem_free_tag, m.free)
    \o KbLine(<<"B", "u", "f", "f", "e", "r", "s", ":">>, m.buffers) \o KbLine(<<"C", "a", "c", "h", "e", "d", ":">>, m.cached)
    \o KbLine(<<"S", "h", "m", "e", "m", ":">>, m.shmem) \o KbLine(<<"S", "R", "e", "c", "l", "a", "i", "m", "a", "b", "l", "e", ":">>, m.reclaimable)

Amounts ==
    [total : {16000000, 1000}, free : {8000000, 400}, buffers : {200000, 0},
     cached : {1000000, 100}, reclaimable : {300000, 0}, shmem : {500000, 0}]

(***************************************************************************)
(* Binary decoder: display.rs                                              *)
(***************************************************************************)
EDID_HEADER == <<0, 255, 255, 255, 255, 255, 255, 0>>
EDID_SIZE == 128

\* a panic of the decoder (an index or a slice range out of bounds)
Fault == [fault |-> TRUE]
Ok(v) == [fault |-> FALSE, ret |-> v]

\* &edid[a..b]: panics when b exceeds the length
Slice(s, a, b) == IF b > Len(s) THEN Fault ELSE Ok(SubSeq(s, a + 1, b))

\* edid[i]: panics when i is not below the length
Index(s, i) == IF i >= Len(s) THEN Fault ELSE Ok(At(s, i))

\* (((edid[58] as u16) & 0xF0) << 4) + (edid[56] as u16)
h_res(e) == ((At(e, 58) \div 16) * 16) * 16 + At(e, 56)

\* mutant: the vertical low byte taken from byte 59
v_res_byte59(e) == (At(e, 58) % 16) * 256 + At(e, 59)

\* (((edid[58] as u16) & 0x0F) << 8) + (edid[57] as u16)
v_res(e) == (At(e, 58) % 16) * 256 + At(e, 57)

\* format!("{}x{}", h_res, v_res)
FormatResolution(h, v) == Dec(h) \o <<"x">> \o Dec(v)

\* mutant: one nonzero value is enough
DecodeResolution_either(e) ==
    IF Index(e, 58).fault \/ Index(e, 56).fault \/ Index(e, 57).fault THEN Fault
    ELSE IF h_res(e) > 0 \/ v_res(e) > 0
         THEN Ok(Some(FormatResolution(h_res(e), v_res(e))))
         ELSE Ok(None)

\* the decode after validation: every index it reads is below EDID_SIZE
DecodeResolution(e) ==
    IF Index(e, 58).fault \/ Index(e, 56).fault \/ Index(e, 57).fault THEN Fault
    ELSE IF h_res(e) > 0 /\ v_res(e) > 0
         THEN Ok(Some(FormatResolution(h_res(e), v_res(e))))
         ELSE Ok(None)

\* mutant: the header is compared before the length is looked at
parse_edid_resolution_header_first(e) ==
    LET header == Slice(e, 0, 8)
    IN  IF header.fault THEN Fault
        ELSE IF header.ret # EDID_HEADER \/ Len(e) < EDID_SIZE THEN Ok(None)
        ELSE DecodeResolution(e)

\* parse_edid_resolution: `len < EDID_SIZE || header differs` short-circuits,
\* so the header slice is taken only of a buffer of at least EDID_SIZE bytes
parse_edid_resolution(e) ==
    IF Len(e) < EDID_SIZE THEN Ok(None)
    ELSE LET header == Slice(e, 0, 8)
         IN  IF header.fault THEN Fault
             ELSE IF header.ret # EDID_HEADER THEN Ok(None)
             ELSE DecodeResolution(e)

\* bound: how many byte values next to 0 and next to 255 the inputs take
ByteSpan == 1

ByteSamples == (0..ByteSpan) \cup ((255 - ByteSpan)..255)

\* a block of n bytes: the given header, the four descriptor bytes, a filler
MkEdid(n, header, b56, b57, b58, b59, fill) ==
    [i \in 1..n |->
        IF i <= 8 THEN header[i]
        ELSE IF i = 57 THEN b56
        ELSE IF i = 58 THEN b57
        ELSE IF i = 59 THEN b58
        ELSE IF i = 60 THEN b59
        ELSE fill]

\* the magic header with one byte changed
BadHeaders ==
    {[EDID_HEADER EXCEPT ![k] = b] : k \in 1..8, b \in {0, 1, 255}} \ {EDID_HEADER}

EdidLengths == {0, 1, 7, 8, 9, 56, 57, 58, 59, 127, 128, 129, 256}

\* the 128-byte block that carries h and v in the layout the decoder reads:
\* low byte of h in byte 56, low byte of v in byte 57, the two high nibbles
\* in byte 58 (h high, v low)
EncodeResolution(h, v, b59) ==
    MkEdid(128, EDID_HEADER, h % 256, v % 256, (h \div 256) * 16 + (v \div 256), b59, 0)

\* resolutions 0..4095 whose low byte is one of the samples
ResSamples == {hi * 256 + lo : hi \in 0..15, lo \in ByteSamples}

RawEdids ==
    {MkEdid(n, EDID_HEADER, 128, 56, 116, 0, fill) : n \in EdidLengths, fill \in {0, 255}}
    \cup {MkEdid(n, hd, 128, 56, 116, 0, 0) : n \in EdidLengths, hd \in BadHeaders}

(***************************************************************************)
(* Connector scan: display.rs get_screen_resolution, get_drm_resolution    *)
(***************************************************************************)
\* str::contains of one character
Contains(s, c) == \E i \in 1..Len(s) : s[i] = c

\* str::trim for the white space a status file holds
RECURSIVE Trim(_)
Trim(s) ==
    IF s # <<>> /\ Head(s) \in {" ", "\n", "\t"} THEN Trim(Tail(s))
    ELSE IF s # <<>> /\ s[Len(s)] \in {" ", "\n", "\t"} THEN Trim(SubSeq(s, 1, Len(s) - 1))
    ELSE s

Connected == <<"c", "o", "n", "n", "e", "c", "t", "e", "d">>
Unknown == <<"U", "n", "k", "n", "o", "w", "n">>

\* file_name.starts_with("card") && file_name.contains("-"), then both files
\* exist and the status reads as "connected": the entry is an active connector
IsActive(entry) ==
    /\ StartsWith(entry.file_name, <<"c", "a", "r", "d">>)
    /\ Contains(entry.file_name, "-")
    /\ entry.status.exists /\ entry.edid.exists
    /\ entry.status.readable
    /\ Trim(entry.status.text) = Connected

\* active_connectors: the active entries in read_dir order
active_connectors(entries) == SelectSeq(entries, IsActive)

\* the read of one connector's edid file and its decoding
ReadEdid(entry) ==
    IF ~entry.edid.readable THEN Ok(None) ELSE parse_edid_resolution(entry.edid.bytes)

\* the resolutions map after the loop over the active connectors: the value
\* of a key is the one inserted last
Resolutions(active) ==
    LET hits == {i \in 1..Len(active) : ReadEdid(active[i]).ret.some}
        keys == {active[i].file_name : i \in hits}
    IN  [k \in keys |->
            LET last == CHOOSE i \in hits :
                            /\ active[i].file_name = k
                            /\ \A j \in hits : active[j].file_name = k => j <= i
            IN  ReadEdid(active[last]).ret.val]

\* the orders a hash map of these keys may be iterated in
IterationOrders(keys) ==
    {f \in [1..Cardinality(keys) -> keys] : \A i, j \in DOMAIN f : f[i] = f[j] => i = j}

\* the loop that pushes ", " before every result but the first
RECURSIVE JoinResolutions(_, _)
JoinResolutions(map, order) ==
    IF order = <<>> THEN <<>>
    ELSE IF Len(order) = 1 THEN map[order[1]]
    ELSE JoinResolutions(map, SubSeq(order, 1, Len(order) - 1))
            \o <<",", " ">> \o map[order[Len(order)]]

\* mutant: a connector that does not decode ends the scan with an error
get_drm_resolution_all_or_nothing(exists, entries, order) ==
    LET active == active_connectors(entries)
        map == Resolutions(active)
    IN  IF ~exists \/ DOMAIN map = {} THEN None
        ELSE IF \E i \in 1..Len(active) : ~ReadEdid(active[i]).ret.some THEN None
        ELSE Some(JoinResolutions(map, order))

\* get_drm_resolution: Ok(label) as Some, Err(()) as None; order is the
\* iteration order of the map
get_drm_resolution(exists, entries, order) ==
    LET map == Resolutions(active_connectors(entries))
    IN  IF ~exists \/ DOMAIN map = {} THEN None
        ELSE Some(JoinResolutions(map, order))

\* get_screen_resolution
get_screen_resolution(exists, entries, order) ==
    LET drm == get_drm_resolution(exists, entries, order)
    IN  IF drm.some THEN drm.val ELSE Unknown

\* bound: number of entries of /sys/class/drm
MaxConnectors == 3

File(text) == [exists |-> TRUE, readable |-> TRUE, text |-> text]
EdidFile(bytes) == [exists |-> TRUE, readable |-> TRUE, bytes |-> bytes]
CardName == <<"c", "a", "r", "d", "0", "-", "D", "P", "-">>

\* the kinds of entry the scan meets; shows is the resolution the entry
\* contributes to the label, or <<>>
ConnectorKinds ==
    LET good == EdidFile(EncodeResolution(1920, 1080, 0))
        wide == EdidFile(EncodeResolution(2560, 1440, 0))
        on == File(Connected \o <<"\n">>)
    IN  {[base |-> <<"v", "e", "r", "s", "i", "o", "n">>, status |-> on, edid |-> good,
          shows |-> <<>>],
         [base |-> <<"c", "a", "r", "d">>, status |-> on, edid |-> good, shows |-> <<>>],
         [base |-> CardName, status |-> [exists |-> FALSE, readable |-> FALSE, text |-> <<>>],
          edid |-> good, shows |-> <<>>],
         [base |-> CardName, status |-> [exists |-> TRUE, readable |-> FALSE, text |-> <<>>],
          edid |-> good, shows |-> <<>>],
         [base |-> CardName,
          status |-> File(<<"d", "i", "s">> \o Connected \o <<"\n">>),
          edid |-> good, shows |-> <<>>],
         [base |-> CardName, status |-> on,
          edid |-> [exists |-> FALSE, readable |-> FALSE, bytes |-> <<>>], shows |-> <<>>],
         [base |-> CardName, status |-> on,
          edid |-> [exists |-> TRUE, readable |-> FALSE, bytes |-> <<>>], shows |-> <<>>],
         [base |-> CardName, status |-> on, edid |-> EdidFile(<<>>), shows |-> <<>>],
         [base |-> CardName, status |-> on,
          edid |-> EdidFile(MkEdid(128, <<0, 255, 255, 255, 255, 255, 255, 1>>, 128, 56, 116, 0, 0)),
          shows |-> <<>>],
         [base |-> CardName, status |-> on, edid |-> EdidFile(EncodeResolution(0, 1080, 0)),
          shows |-> <<>>],
         [base |-> CardName, status |-> on, edid |-> good,
          shows |-> <<"1", "9", "2", "0", "x", "1", "0", "8", "0">>],
         [base |-> CardName, status |-> File(Connected), edid |-> wide,
          shows |-> <<"2", "5", "6", "0", "x", "1", "4", "4", "0">>]}

\* a directory listing: entry i is of kind kinds[i] and is named base + i
DrmListing(kinds) ==
    [i \in 1..Len(kinds) |-> [file_name |-> kinds[i].base \o Dec(i),
                              status |-> kinds[i].status,
                              edid |-> kinds[i].edid,
                              shows |-> kinds[i].shows]]

(***************************************************************************)
(* Art registry: build.rs                                                  *)
(***************************************************************************)
\* bound: number of logo definitions in the catalogue
MaxLogos == 3

\* names as byte strings over a two-letter alphabet; several are prefixes of
\* others, as "Ubuntu" is of "Ubuntu-GNOME" in the catalogue
LogoNames == {<<1>>, <<1, 1>>, <<1, 2>>, <<2>>, <<2, 1>>}
Identifiers == LogoNames \cup {<<>>, <<2, 2>>, <<1, 2, 1>>}

Logo == [name : LogoNames, is_wildcard : BOOLEAN]

Catalogues == UNION {[1..n -> Logo] : n \in 0..MaxLogos}

\* slice::sort_by(|a, b| a.name.cmp(&b.name)): a stable sort, here by insertion
RECURSIVE InsertByName(_, _)
InsertByName(sorted, logo) ==
    IF sorted = <<>> THEN <<logo>>
    ELSE IF StrCmp(logo.name, sorted[Len(sorted)].name) = "Less"
         THEN Append(InsertByName(SubSeq(sorted, 1, Len(sorted) - 1), logo),
                     sorted[Len(sorted)])
         ELSE Append(sorted, logo)

RECURSIVE SortByName(_)
SortByName(logos) ==
    IF logos = <<>> THEN <<>>
    ELSE InsertByName(SortByName(SubSeq(logos, 1, Len(logos) - 1)), logos[Len(logos)])

\* extract_logos: the definitions in catalogue order, then sorted by name
extract_logos(content) == SortByName(content)

\* the comparator find_logo hands to binary_search_by
LogoCmp(logo, name) ==
    IF logo.is_wildcard THEN "Greater" ELSE StrCmp(logo.name, name)

\* slice::binary_search_by as shipped up to Rust 1.81: Some(index) or None
RECURSIVE BinarySearchClassic(_, _, _, _)
BinarySearchClassic(table, name, left, right) ==
    IF left >= right THEN None
    ELSE LET mid == left + (right - left) \div 2
             cmp == LogoCmp(At(table, mid), name)
         IN  IF cmp = "Equal" THEN Some(mid)
             ELSE BinarySearchClassic(table, name,
                                      IF cmp = "Less" THEN mid + 1 ELSE left,
                                      IF cmp = "Greater" THEN mid ELSE right)

\* slice::binary_search_by as shipped from Rust 1.82: no early exit
RECURSIVE BinarySearchBranchless(_, _, _, _)
BinarySearchBranchless(table, name, base, size) ==
    IF size > 1
    THEN LET half == size \div 2
             mid == base + half
             cmp == LogoCmp(At(table, mid), name)
         IN  BinarySearchBranchless(table, name,
                                    IF cmp = "Greater" THEN base ELSE mid,
                                    size - half)
    ELSE IF LogoCmp(At(table, base), name) = "Equal" THEN Some(base) ELSE None

binary_search_by(table, name, impl) ==
    IF Len(table) = 0 THEN None
    ELSE IF impl = "classic" THEN BinarySearchClassic(table, name, 0, Len(table))
    ELSE BinarySearchBranchless(table, name, 0, Len(table))

\* the scan without the is_wildcard test
FirstWildcard_any_entry(table, name) ==
    LET hits == {i \in 0..(Len(table) - 1) : StartsWith(name, At(table, i).name)}
    IN  IF hits = {} THEN None
        ELSE Some(CHOOSE i \in hits : \A j \in hits : i <= j)

\* the scan with the prefix test the wrong way round
FirstWildcard_reversed(table, name) ==
    LET hits == {i \in 0..(Len(table) - 1) :
                    At(table, i).is_wildcard /\ StartsWith(At(table, i).name, name)}
    IN  IF hits = {} THEN None
        ELSE Some(CHOOSE i \in hits : \A j \in hits : i <= j)

\* LOGOS.iter().find(|logo| logo.is_wildcard && distro_name.starts_with(&logo.name))
FirstWildcard(table, name) ==
    LET hits == {i \in 0..(Len(table) - 1) :
                    At(table, i).is_wildcard /\ StartsWith(name, At(table, i).name)}
    IN  IF hits = {} THEN None
        ELSE Some(CHOOSE i \in hits : \A j \in hits : i <= j)

\* find_logo: the index of the entry returned, or None
find_logo(table, name, impl) ==
    LET exact == binary_search_by(table, name, impl)
    IN  IF exact.some THEN exact ELSE FirstWildcard(table, name)

(***************************************************************************)
(* Art processing: build.rs process_logos, calculate_max_line_length       *)
(***************************************************************************)
\* the byte 0x1b, as one character
ESC == "ESC"

\* "\x1b[0m"
RESET == <<ESC, "[", "0", "m">>

\* the ANSI code of a colour value: basic (30-37) up to 7, else 256-colour
AnsiCode(color_value) ==
    IF color_value <= 7 THEN <<ESC, "[">> \o Dec(30 + color_value) \o <<"m">>
    ELSE <<ESC, "[", "3", "8", ";", "5", ";">> \o Dec(color_value) \o <<"m">>

\* format!("${{c{}}}", n)
Placeholder(n) == <<"$", "{", "c">> \o Dec(n) \o <<"}">>

\* the keys of color_map: the i in 0..6 with a colour above 0
ColorMapKeys(colors) == {i \in 0..5 : i < Len(colors) /\ At(colors, i) > 0}

EndsWith(s, suffix) ==
    Len(suffix) <= Len(s) /\ SubSeq(s, Len(s) - Len(suffix) + 1, Len(s)) = suffix

\* str::replace: every non-overlapping match, from the left
RECURSIVE Replace(_, _, _)
Replace(s, pat, by) ==
    IF Len(s) < Len(pat) THEN s
    ELSE IF StartsWith(s, pat)
         THEN by \o Replace(SubSeq(s, Len(pat) + 1, Len(s)), pat, by)
         ELSE <<Head(s)>> \o Replace(Tail(s), pat, by)

\* the loop over color_map, in the map's iteration order
RECURSIVE ReplacePlaceholders(_, _, _)
ReplacePlaceholders(art, colors, order) ==
    IF order = <<>> THEN art
    ELSE ReplacePlaceholders(
             Replace(art, Placeholder(Head(order) + 1), AnsiCode(At(colors, Head(order)))),
             colors, Tail(order))

\* str::lines: the pieces between newlines, without a final empty piece
RECURSIVE Lines(_)
Lines(s) ==
    IF s = <<>> THEN <<>>
    ELSE LET end == SkipLine(s, 0)
         IN  <<SubSeq(s, 1, end)>> \o Lines(SubSeq(s, end + 2, Len(s)))

\* the length of the match of \$\{c\d+\} at pos, or 0
PlaceholderAt(line, pos) ==
    IF pos + 3 <= Len(line) /\ SubSeq(line, pos + 1, pos + 3) = <<"$", "{", "c">>
    THEN LET end == SkipDigits(line, pos + 3)
         IN  IF end > pos + 3 /\ end < Len(line) /\ At(line, end) = "}"
             THEN end + 1 - pos ELSE 0
    ELSE 0

\* re.replace_all(line, ""), from pos on
RECURSIVE StripPlaceholders(_, _)
StripPlaceholders(line, pos) ==
    IF pos >= Len(line) THEN <<>>
    ELSE IF PlaceholderAt(line, pos) > 0
         THEN StripPlaceholders(line, pos + PlaceholderAt(line, pos))
         ELSE <<At(line, pos)>> \o StripPlaceholders(line, pos + 1)

\* .max().unwrap_or(0) over a sequence of numbers
RECURSIVE MaxOf(_)
MaxOf(ns) ==
    IF ns = <<>> THEN 0
    ELSE LET rest == MaxOf(Tail(ns)) IN IF Head(ns) >= rest THEN Head(ns) ELSE rest

\* mutant: the lines measured with their placeholders
calculate_max_line_length_unstripped(ascii_art) ==
    LET lines == Lines(ascii_art)
    IN  MaxOf([i \in 1..Len(lines) |-> Len(lines[i])])

\* calculate_max_line_length
calculate_max_line_length(ascii_art) ==
    LET lines == Lines(ascii_art)
    IN  MaxOf([i \in 1..Len(lines) |-> Len(StripPlaceholders(lines[i], 0))])

\* the closure of process_logos for one logo; order is the iteration order of
\* color_map
process_logos(logo, order) ==
    LET replaced == ReplacePlaceholders(logo.ascii_art, logo.colors, order)
        formatted_art == IF EndsWith(replaced, RESET) THEN replaced ELSE replaced \o RESET
    IN  [ascii_art |-> formatted_art,
         max_line_length |-> calculate_max_line_length(logo.ascii_art)]

\* bound: number of pieces an art text is made of
MaxArtPieces == 3

\* the pieces: visible characters (m is also the terminator of an escape
\* sequence), placeholders, a newline, and the two halves of a placeholder
ArtPieces == <<
    <<"a">>, <<"m">>, <<"\n">>,
    <<"$", "{", "c", "1", "}">>, <<"$", "{", "c", "2", "}">>,
    <<"$", "{", "c">>, <<"1", "}">>
>>

\* the text made of the pieces chosen
ArtText(choice) == Concat([i \in 1..Len(choice) |-> ArtPieces[choice[i]]])

\* set_colors lines: none, one basic colour, an unset first colour with a
\* 256-colour second, two colours
ColorLists == {<<>>, <<1>>, <<0, 200>>, <<7, 8>>}

(***************************************************************************)
(* Compositor: main.rs 459-510                                             *)
(***************************************************************************)
\* {:width$} of a string: spaces appended up to width characters
RECURSIVE Pad(_, _)
Pad(str, width) == IF Len(str) >= width THEN str ELSE Pad(Append(str, " "), width)

\* let padding = 2
padding == 2

\* mutant: the row loop stops at the shorter of the two columns
compose_shorter_column(art, lines) ==
    LET logo_lines == Lines(art)
        widths == [i \in 1..Len(logo_lines) |-> Len(logo_lines[i])]
        logo_width == MaxOf(widths)
        rows_n == IF Len(logo_lines) >= Len(lines) THEN Len(lines) ELSE Len(logo_lines)
    IN  [logo_lines |-> logo_lines, line_widths |-> widths, logo_width |-> logo_width,
         rows |-> [i \in 1..rows_n |->
                     [art |-> Pad(logo_lines[i], logo_width) \o Pad(<<>>, padding),
                      info |-> lines[i]]]]

\* main from logo_lines to the end of the row loop: the width of a line is
\* line.len(), logo_width their maximum, and row i is the art line padded to
\* logo_width, padding spaces, the info line
compose(art, lines) ==
    LET logo_lines == Lines(art)
        widths == [i \in 1..Len(logo_lines) |-> Len(logo_lines[i])]
        logo_width == MaxOf(widths)
        rows_n == IF Len(logo_lines) >= Len(lines) THEN Len(logo_lines) ELSE Len(lines)
    IN  [logo_lines |-> logo_lines, line_widths |-> widths, logo_width |-> logo_width,
         rows |-> [i \in 1..rows_n |->
                     [art |-> Pad(IF i <= Len(logo_lines) THEN logo_lines[i] ELSE <<>>,
                                  logo_width)
                                 \o Pad(<<>>, padding),
                      info |-> IF i <= Len(lines) THEN lines[i] ELSE <<>>]]]

\* info lines given to the compositor: fewer and more than the art has lines
InfoChoices == {<<<<"O", "S">>>>, <<<<"O", "S">>, <<"-">>, <<"K">>, <<"U", "p">>>>}

(***************************************************************************)
(* Theme detection: theme.rs                                               *)
(***************************************************************************)
\* THEME_CONFIG_PATHS, with what Path::extension and Path::file_name give
THEME_CONFIG_PATHS == <<
    [path |-> "~/.gtkrc-2.0", extension |-> "0", file_name |-> ".gtkrc-2.0"],
    [path |-> "~/.config/gtk-3.0/settings.ini", extension |-> "ini", file_name |-> "settings.ini"],
    [path |-> "~/.config/gtk-4.0/settings.ini", extension |-> "ini", file_name |-> "settings.ini"],
    [path |-> "/etc/gtk-3.0/settings.ini", extension |-> "ini", file_name |-> "settings.ini"],
    [path |-> "/etc/gtk-4.0/settings.ini", extension |-> "ini", file_name |-> "settings.ini"] >>

\* ICON_CONFIG_PATHS
ICON_CONFIG_PATHS == <<
    [path |-> "~/.config/gtk-3.0/settings.ini", extension |-> "ini", file_name |-> "settings.ini"],
    [path |-> "~/.config/gtk-4.0/settings.ini", extension |-> "ini", file_name |-> "settings.ini"],
    [path |-> "/etc/gtk-3.0/settings.ini", extension |-> "ini", file_name |-> "settings.ini"],
    [path |-> "/etc/gtk-4.0/settings.ini", extension |-> "ini", file_name |-> "settings.ini"],
    [path |-> "~/.icons/default/index.theme", extension |-> "theme", file_name |-> "index.theme"],
    [path |-> "/usr/share/icons/default/index.theme", extension |-> "theme",
     file_name |-> "index.theme"] >>

\* memmem::find / str::find: the offset of the first occurrence of pat in s
\* at or after pos, or -1
RECURSIVE FindFrom(_, _, _)
FindFrom(s, pat, pos) ==
    IF pos + Len(pat) > Len(s) THEN -1
    ELSE IF SubSeq(s, pos + 1, pos + Len(pat)) = pat THEN pos
    ELSE FindFrom(s, pat, pos + 1)

Find(s, pat) == FindFrom(s, pat, 0)

\* str::contains of a pattern string
ContainsStr(s, pat) == Find(s, pat) >= 0

\* str::to_lowercase, for the letters desktop names are written with
LowerOf(c) ==
    CASE c = "G" -> "g" [] c = "N" -> "n" [] c = "O" -> "o" [] c = "M" -> "m"
      [] c = "E" -> "e" [] c = "K" -> "k" [] c = "D" -> "d" [] c = "X" -> "x"
      [] c = "F" -> "f" [] c = "C" -> "c" [] c = "B" -> "b" [] OTHER -> c

to_lowercase(s) == [i \in 1..Len(s) |-> LowerOf(s[i])]

\* str::trim_matches of one character
RECURSIVE trim_matches(_, _)
trim_matches(s, c) ==
    IF s # <<>> /\ Head(s) = c THEN trim_matches(Tail(s), c)
    ELSE IF s # <<>> /\ s[Len(s)] = c THEN trim_matches(SubSeq(s, 1, Len(s) - 1), c)
    ELSE s

\* str::trim_start_matches of a prefix string
RECURSIVE trim_start_matches(_, _)
trim_start_matches(s, prefix) ==
    IF prefix # <<>> /\ StartsWith(s, prefix)
    THEN trim_start_matches(SubSeq(s, Len(prefix) + 1, Len(s)), prefix)
    ELSE s

\* the result of a query or a search together with what it ran or read
Nothing == [ret |-> None, ran |-> <<>>]

\* the tail of the three single-command queries: status.success(), the
\* trimmed stdout, a non-empty value
TrimmedOutput(o) ==
    IF o.success /\ Trim(o.stdout) # <<>> THEN Some(Trim(o.stdout)) ELSE None

\* query_gsettings; tools gives what running each command yields
query_gsettings(tools) ==
    LET o == tools["gsettings"]
        value == trim_matches(trim_matches(Trim(o.stdout), "'"), "\"")
    IN  IF ~o.spawned THEN [ret |-> None, ran |-> <<"gsettings">>]
        ELSE [ret |-> IF o.success /\ value # <<>> /\ value # <<"'", "'">>
                      THEN Some(value) ELSE None,
              ran |-> <<"gsettings">>]

\* query_kde_config: kreadconfig5, then kreadconfig; a command that cannot be
\* started ends the query
query_kde_config(tools) ==
    LET first == tools["kreadconfig5"]
        second == tools["kreadconfig"]
    IN  IF ~first.spawned THEN [ret |-> None, ran |-> <<"kreadconfig5">>]
        ELSE IF TrimmedOutput(first).some
        THEN [ret |-> TrimmedOutput(first), ran |-> <<"kreadconfig5">>]
        ELSE IF ~second.spawned THEN [ret |-> None, ran |-> <<"kreadconfig5", "kreadconfig">>]
        ELSE [ret |-> TrimmedOutput(second), ran |-> <<"kreadconfig5", "kreadconfig">>]

\* query_xsettings
query_xsettings(tools) ==
    LET o == tools["xfconf-query"]
    IN  IF ~o.spawned THEN [ret |-> None, ran |-> <<"xfconf-query">>]
        ELSE [ret |-> TrimmedOutput(o), ran |-> <<"xfconf-query">>]

NonEmpty(v) == IF v # <<>> THEN Some(v) ELSE None

\* the body of the line loop of search_file_for_key
KeyLineValue(raw, key) ==
    LET line == Trim(raw)
        eq == Find(line, <<"=">>)
    IN  IF StartsWith(line, key) /\ eq >= 0
        THEN NonEmpty(trim_matches(Trim(SubSeq(line, eq + 2, Len(line))), "\""))
        ELSE None

gtk_theme_name == <<"g", "t", "k", "-", "t", "h", "e", "m", "e", "-", "n", "a", "m", "e">>
gtk_icon_theme_name == <<"g", "t", "k", "-", "i", "c", "o", "n", "-", "t", "h", "e", "m", "e", "-", "n", "a", "m", "e">>
Inherits == <<"I", "n", "h", "e", "r", "i", "t", "s", "=">>

\* the body of the line loop for ~/.gtkrc-2.0: parts[1] of split('=')
GtkrcLineValue(line) ==
    LET eq == Find(line, <<"=">>)
        rest == SubSeq(line, eq + 2, Len(line))
        next == Find(rest, <<"=">>)
        part == IF next >= 0 THEN SubSeq(rest, 1, next) ELSE rest
    IN  IF ContainsStr(line, gtk_theme_name) /\ eq >= 0
        THEN NonEmpty(trim_matches(Trim(part), "\""))
        ELSE None

\* the body of the line loop for index.theme
IndexLineValue(line) ==
    IF StartsWith(line, Inherits) THEN NonEmpty(Trim(trim_start_matches(line, Inherits)))
    ELSE None

\* the line loops of search_file_for_key ("ini"), of ~/.gtkrc-2.0 ("gtkrc") and
\* of index.theme ("index"): the first line that gives a value returns it
RECURSIVE FirstValue(_, _, _)
FirstValue(lines, how, key) ==
    LET value == CASE how = "ini" -> KeyLineValue(Head(lines), key)
                   [] how = "gtkrc" -> GtkrcLineValue(Head(lines))
                   [] how = "index" -> IndexLineValue(Head(lines))
    IN  IF lines = <<>> THEN None
        ELSE IF value.some THEN value
        ELSE FirstValue(Tail(lines), how, key)

\* search_file_for_key; file is None for a path that does not exist or
\* cannot be read
search_file_for_key(file, key) ==
    IF ~file.some THEN None ELSE FirstValue(Lines(file.val), "ini", key)

\* mutant: the last file of the list that has a value wins
RECURSIVE ConfigFiles_last_wins(_, _, _, _)
ConfigFiles_last_wins(kind, files, i, read) ==
    LET paths == IF kind = "theme" THEN THEME_CONFIG_PATHS ELSE ICON_CONFIG_PATHS
        j == Len(paths) + 1 - i
        key == IF kind = "theme" THEN gtk_theme_name ELSE gtk_icon_theme_name
    IN  IF i > Len(paths) THEN [ret |-> None, ran |-> read]
        ELSE IF search_file_for_key(files[j], key).some
        THEN [ret |-> search_file_for_key(files[j], key), ran |-> Append(read, paths[j].path)]
        ELSE ConfigFiles_last_wins(kind, files, i + 1, Append(read, paths[j].path))

\* step 3 of both detections: the loop over the configuration paths from
\* the i-th on; read lists the paths looked at before
RECURSIVE ConfigFiles(_, _, _, _)
ConfigFiles(kind, files, i, read) ==
    LET paths == IF kind = "theme" THEN THEME_CONFIG_PATHS ELSE ICON_CONFIG_PATHS
        key == IF kind = "theme" THEN gtk_theme_name ELSE gtk_icon_theme_name
        special == IF kind = "theme" THEN ".gtkrc-2.0" ELSE "index.theme"
        how == IF kind = "theme" THEN "gtkrc" ELSE "index"
        value == IF paths[i].extension = "ini" THEN search_file_for_key(files[i], key)
                 ELSE IF paths[i].file_name = special /\ files[i].some
                 THEN FirstValue(Lines(files[i].val), how, key)
                 ELSE None
        looked == paths[i].extension = "ini" \/ paths[i].file_name = special
        now == IF looked THEN Append(read, paths[i].path) ELSE read
    IN  IF i > Len(paths) THEN [ret |-> None, ran |-> read]
        ELSE IF value.some THEN [ret |-> value, ran |-> now]
        ELSE ConfigFiles(kind, files, i + 1, now)

\* detect_gtk_theme_internal (kind "theme") and detect_icon_theme_internal
\* (kind "icons"): the value returned and, in order, the commands run and
\* the files looked at
detect_internal(kind, s) ==
    LET desktop_lower == to_lowercase(IF s.desktop.some THEN s.desktop.val ELSE <<>>)
        gnome == IF \/ ContainsStr(desktop_lower, <<"g", "n", "o", "m", "e">>)
                    \/ ContainsStr(desktop_lower, <<"b", "u", "d", "g", "i", "e">>)
                    \/ ContainsStr(desktop_lower, <<"c", "i", "n", "n", "a", "m", "o", "n">>)
                    \/ ContainsStr(desktop_lower, <<"u", "n", "i", "t", "y">>)
                 THEN query_gsettings(s.tools) ELSE Nothing
        kde == IF ContainsStr(desktop_lower, <<"k", "d", "e">>) THEN query_kde_config(s.tools)
               ELSE Nothing
        xfce == IF ContainsStr(desktop_lower, <<"x", "f", "c", "e">>) THEN query_xsettings(s.tools)
                ELSE Nothing
        files == ConfigFiles(kind, s.files, 1, gnome.ran \o kde.ran \o xfce.ran)
    IN  IF s.env.some /\ s.env.val # <<>> THEN [value |-> s.env.val, consulted |-> <<>>]
        ELSE IF gnome.ret.some THEN [value |-> gnome.ret.val, consulted |-> gnome.ran]
        ELSE IF kde.ret.some THEN [value |-> kde.ret.val, consulted |-> gnome.ran \o kde.ran]
        ELSE IF xfce.ret.some
        THEN [value |-> xfce.ret.val, consulted |-> gnome.ran \o kde.ran \o xfce.ran]
        ELSE IF files.ret.some THEN [value |-> files.ret.val, consulted |-> files.ran]
        ELSE [value |-> Unknown, consulted |-> files.ran]

\* the commands the queries run
Commands == {"gsettings", "kreadconfig5", "kreadconfig", "xfconf-query"}

\* what running a command can yield: it cannot be started, it fails, it
\* prints an empty value, it prints a value (the fourth); answer is the value
\* it stands for
Outcomes(cmd) ==
    <<[spawned |-> FALSE, success |-> FALSE, stdout |-> <<>>, answer |-> None],
     [spawned |-> TRUE, success |-> FALSE, stdout |-> <<"f", "a", "i", "l", "e", "d", "\n">>, answer |-> None],
     IF cmd = "gsettings"
     THEN [spawned |-> TRUE, success |-> TRUE, stdout |-> <<"'", "'", "\n">>, answer |-> None]
     ELSE [spawned |-> TRUE, success |-> TRUE, stdout |-> <<" ", "\n">>, answer |-> None],
     IF cmd = "gsettings"
     THEN [spawned |-> TRUE, success |-> TRUE, stdout |-> <<"'", "A", "d", "w", "a", "i", "t", "a", "'", "\n">>,
           answer |-> Some(<<"A", "d", "w", "a", "i", "t", "a">>)]
     ELSE [spawned |-> TRUE, success |-> TRUE, stdout |-> <<"B", "r", "e", "e", "z", "e", "\n">>,
           answer |-> Some(<<"B", "r", "e", "e", "z", "e">>)]>>

\* values of XDG_CURRENT_DESKTOP, with the commands each makes the detection
\* run, in order
Desktops ==
    {[text |-> None, asks |-> <<>>],
     [text |-> Some(<<"s", "w", "a", "y">>), asks |-> <<>>],
     [text |-> Some(<<"G", "N", "O", "M", "E">>), asks |-> <<"gsettings">>],
     [text |-> Some(<<"X", "-", "C", "i", "n", "n", "a", "m", "o", "n">>), asks |-> <<"gsettings">>],
     [text |-> Some(<<"K", "D", "E">>), asks |-> <<"kreadconfig5", "kreadconfig">>],
     [text |-> Some(<<"X", "F", "C", "E">>), asks |-> <<"xfconf-query">>]}

\* values of GTK_THEME / ICON_THEME: unset, empty, a name
ThemeVariables == {None, Some(<<>>), Some(<<"E", "n", "v">>)}

\* the i-th configuration file of a detection: absent, with the keys but no
\* value, or with the values T<i> (theme) and I<i> (icons); holds is the
\* value the detection can take from it
ConfigFile(kind, i, choice) ==
    LET paths == IF kind = "theme" THEN THEME_CONFIG_PATHS ELSE ICON_CONFIG_PATHS
        name == paths[i].file_name
        t == <<"T">> \o Dec(i)
        c == <<"I">> \o Dec(i)
    IN  IF choice = "missing" THEN [content |-> None, holds |-> None]
        ELSE IF choice = "empty"
        THEN [content |-> Some(CASE name = ".gtkrc-2.0" ->
                                      <<"g", "t", "k", "-", "t", "h", "e", "m", "e", "-", "n", "a", "m", "e", "\n", "g", "t", "k", "-", "t", "h", "e", "m", "e", "-", "n", "a", "m", "e", "=", "\"", "\"", "\n">>
                                 [] name = "index.theme" ->
                                      <<"[", "I", "c", "o", "n", " ", "T", "h", "e", "m", "e", "]", "\n", "I", "n", "h", "e", "r", "i", "t", "s", "=", " ", "\n">>
                                 [] OTHER ->
                                      <<"[", "S", "e", "t", "t", "i", "n", "g", "s", "]", "\n", "g", "t", "k", "-", "t", "h", "e", "m", "e", "-", "n", "a", "m", "e", "=", "\n", "g", "t", "k", "-", "i", "c", "o", "n", "-", "t", "h", "e", "m", "e", "-", "n", "a", "m", "e", "=", "\"", "\"", "\n">>),
              holds |-> None]
        ELSE [content |-> Some(CASE name = ".gtkrc-2.0" ->
                                      <<"#", " ", "t", "h", "e", "m", "e", "\n", "g", "t", "k", "-", "t", "h", "e", "m", "e", "-", "n", "a", "m", "e", "=", "\"">> \o t \o <<"\"", "\n">>
                                 [] name = "index.theme" ->
                                      <<"[", "I", "c", "o", "n", " ", "T", "h", "e", "m", "e", "]", "\n", "I", "n", "h", "e", "r", "i", "t", "s", "=">> \o c \o <<"\n">>
                                 [] OTHER ->
                                      <<"[", "S", "e", "t", "t", "i", "n", "g", "s", "]", "\n", " ", "g", "t", "k", "-", "t", "h", "e", "m", "e", "-", "n", "a", "m", "e", " ", "=", " ", "\"">> \o t
                                          \o <<"\"", "\n", "g", "t", "k", "-", "i", "c", "o", "n", "-", "t", "h", "e", "m", "e", "-", "n", "a", "m", "e", "=">> \o c \o <<"\n">>),
              holds |-> Some(IF kind = "theme" THEN t ELSE c)]

(***************************************************************************)
(* CPU label and distribution name: os.rs                                  *)
(***************************************************************************)
\* b"-Core"
core_marker == <<"-", "C", "o", "r", "e">>

\* memchr::memrchr: the offset of the last c in s, or -1
RECURSIVE memrchr(_, _)
memrchr(c, s) ==
    IF s = <<>> THEN -1
    ELSE IF s[Len(s)] = c THEN Len(s) - 1
    ELSE memrchr(c, SubSeq(s, 1, Len(s) - 1))

\* potential_count.iter().all(|&b| b >= b'0' && b <= b'9')
AllDigits(s) == \A i \in 1..Len(s) : IsDigit(s[i])

\* mutant: the marker, or the count with its space and the marker, is cut out
\* and what follows is kept
CutCoreCount_keeps_rest(model) ==
    LET trimmed_model == Trim(model)
        core_idx == Find(trimmed_model, core_marker)
        prefix_slice == SubSeq(trimmed_model, 1, core_idx)
        rest == SubSeq(trimmed_model, core_idx + Len(core_marker) + 1, Len(trimmed_model))
        last_space == memrchr(" ", prefix_slice)
        potential_count == SubSeq(prefix_slice, last_space + 2, Len(prefix_slice))
    IN  IF core_idx < 0 THEN trimmed_model
        ELSE IF last_space >= 0 /\ AllDigits(potential_count) /\ potential_count # <<>>
        THEN SubSeq(trimmed_model, 1, last_space) \o rest
        ELSE prefix_slice \o rest

\* get_cpu_info, os.rs 113-142: model_name made of the text after the tag
CutCoreCount(model) ==
    LET trimmed_model == Trim(model)
        core_idx == Find(trimmed_model, core_marker)
        prefix_slice == SubSeq(trimmed_model, 1, core_idx)
        last_space == memrchr(" ", prefix_slice)
        potential_count == SubSeq(prefix_slice, last_space + 2, Len(prefix_slice))
    IN  IF core_idx < 0 THEN trimmed_model
        ELSE IF last_space >= 0
        THEN IF AllDigits(potential_count) /\ potential_count # <<>>
             THEN SubSeq(trimmed_model, 1, last_space)
             ELSE SubSeq(trimmed_model, 1, core_idx)
        ELSE SubSeq(trimmed_model, 1, core_idx)

\* bound: number of pieces a model string is made of
MaxModelPieces == 4

\* the pieces: a name, a count after a space, a word after a space, a bare
\* count, the marker, a word after the marker, a space
ModelPieces == <<<<"R", "7">>, <<" ", "8">>, <<" ", "X", "3">>, <<"1", "6">>, <<"-", "C", "o", "r", "e">>, <<" ", "P">>, <<" ">>>>

\* b"NAME=" and b"ID="
name_pattern == <<"N", "A", "M", "E", "=">>
id_pattern == <<"I", "D", "=">>

\* char::to_uppercase, for the letters identifiers begin with
UpperOf(c) ==
    CASE c = "a" -> "A" [] c = "d" -> "D" [] c = "f" -> "F" [] c = "g" -> "G"
      [] c = "u" -> "U" [] OTHER -> c

\* the marker files, in the order they are tried, with the name each gives
MarkerFiles == <<
    [path |-> "/etc/arch-release", name |-> <<"A", "r", "c", "h", " ", "L", "i", "n", "u", "x">>],
    [path |-> "/etc/debian_version", name |-> <<"D", "e", "b", "i", "a", "n", " ", "L", "i", "n", "u", "x">>],
    [path |-> "/etc/redhat-release", name |-> <<"R", "e", "d", " ", "H", "a", "t", " ", "L", "i", "n", "u", "x">>] >>

\* os.rs 72-80: the first marker file that exists, else "Linux"
RECURSIVE FromMarkers(_, _)
FromMarkers(existing, i) ==
    IF i > Len(MarkerFiles) THEN <<"L", "i", "n", "u", "x">>
    ELSE IF MarkerFiles[i].path \in existing THEN MarkerFiles[i].name
    ELSE FromMarkers(existing, i + 1)

\* the bytes from start up to the next newline, or None without a newline
UpToNewline(d, start) ==
    LET end_offset == Find(SubSeq(d, start + 1, Len(d)), <<"\n">>)
    IN  IF end_offset >= 0 THEN Some(SubSeq(d, start + 1, start + end_offset)) ELSE None

\* os.rs 45-50: one pair of surrounding double quotes is taken off
Unquote(name) ==
    IF Len(name) >= 2 /\ name[1] = "\"" /\ name[Len(name)] = "\""
    THEN SubSeq(name, 2, Len(name) - 1) ELSE name

\* os.rs 60-66: the identifier capitalised, " Linux" appended
Capitalised(id) ==
    IF id = <<>> THEN <<"L", "i", "n", "u", "x">> ELSE <<UpperOf(Head(id))>> \o Tail(id) \o <<" ", "L", "i", "n", "u", "x">>

\* get_distribution_name; f.os_release is None when /etc/os-release cannot be
\* opened or mapped, f.existing are the paths that exist
get_distribution_name(f) ==
    LET bytes == f.os_release.val
        name_pos == Find(bytes, name_pattern)
        id_pos == Find(bytes, id_pattern)
        name == UpToNewline(bytes, name_pos + Len(name_pattern))
        id == UpToNewline(bytes, id_pos + Len(id_pattern))
    IN  IF ~f.os_release.some THEN FromMarkers(f.existing, 1)
        ELSE IF name_pos >= 0
        THEN IF name.some THEN Trim(Unquote(name.val)) ELSE FromMarkers(f.existing, 1)
        ELSE IF id_pos >= 0 /\ id.some THEN Capitalised(trim_matches(Trim(id.val), "\""))
        ELSE FromMarkers(f.existing, 1)

\* bound: number of lines of a release file
MaxReleaseLines == 3

\* lines of a release file, with the key and the value each stands for: the
\* last one lacks its newline
ReleaseLines == <<
    [text |-> <<"N", "A", "M", "E", "=", "\"", "A", "r", "c", "h", " ", "L", "i", "n", "u", "x", "\"", "\n">>, key |-> "NAME", value |-> <<"A", "r", "c", "h", " ", "L", "i", "n", "u", "x">>],
    [text |-> <<"P", "R", "E", "T", "T", "Y", "_", "N", "A", "M", "E", "=", "\"", "P", "r", "e", "t", "t", "y", "\"", "\n">>, key |-> "PRETTY_NAME", value |-> <<"P", "r", "e", "t", "t", "y">>],
    [text |-> <<"I", "D", "=", "a", "r", "c", "h", "\n">>, key |-> "ID", value |-> <<"a", "r", "c", "h">>],
    [text |-> <<"V", "E", "R", "S", "I", "O", "N", "_", "I", "D", "=", "\"", "1", "2", "\"", "\n">>, key |-> "VERSION_ID", value |-> <<"1", "2">>],
    [text |-> <<"N", "A", "M", "E", "=", "G", "e", "n", "t", "o", "o", "\n">>, key |-> "NAME", value |-> <<"G", "e", "n", "t", "o", "o">>],
    [text |-> <<"I", "D", "=", "\"", "d", "e", "b", "i", "a", "n", "\"">>, key |-> "ID", value |-> <<"d", "e", "b", "i", "a", "n">>] >>

(***************************************************************************)
(* The scan loops of proc.rs, one iteration at a time                      *)
(***************************************************************************)
\* b"model name\t: " and b"cpu MHz\t\t: "
model_tag == <<"m", "o", "d", "e", "l", " ", "n", "a", "m", "e", "\t", ":", " ">>
mhz_tag == <<"c", "p", "u", " ", "M", "H", "z", "\t", "\t", ":", " ">>

\* the tests of the three inner loops on a byte
Passes(test, c) ==
    CASE test = "blank" -> c \in {" ", "\t"}
      [] test = "digit" -> IsDigit(c)
      [] test = "line" -> c # "\n"

\* mutant: the byte is tested before the position is compared with the length
RECURSIVE WhileScan_unguarded(_, _, _, _)
WhileScan_unguarded(d, pos, top, test) ==
    IF pos < Len(d) /\ Passes(test, At(d, pos))
    THEN WhileScan_unguarded(d, pos + 1, Max(top, pos), test)
    ELSE [pos |-> pos, top |-> Max(top, pos)]

\* while pos < data.len() && test(data[pos]) { pos += 1 }: the position it
\* stops at, and top, the highest index read so far
RECURSIVE WhileScan(_, _, _, _)
WhileScan(d, pos, top, test) ==
    IF pos < Len(d)
    THEN IF Passes(test, At(d, pos)) THEN WhileScan(d, pos + 1, Max(top, pos), test)
         ELSE [pos |-> pos, top |-> Max(top, pos)]
    ELSE [pos |-> pos, top |-> top]

\* pos + tag.len() < data.len() && &data[pos..pos + tag.len()] == tag: the
\* slice is read only when the comparison of lengths passed
TagTest(d, pos, tag, top) ==
    IF pos + Len(tag) < Len(d)
    THEN [hit |-> SubSeq(d, pos + 1, pos + Len(tag)) = tag, top |-> Max(top, pos + Len(tag) - 1)]
    ELSE [hit |-> FALSE, top |-> top]

\* a tag test that the emptiness of its local short-circuits
TagTestIf(wanted, d, pos, tag, top) ==
    IF wanted THEN TagTest(d, pos, tag, top) ELSE [hit |-> FALSE, top |-> top]

\* a tag branch of parse_meminfo: blanks, digits, the amount in bytes
MemField(d, pos, tag, top, old) ==
    LET blanks == WhileScan(d, pos + Len(tag), top, "blank")
        digits == WhileScan(d, blanks.pos, blanks.top, "digit")
        val == ParseU64(SubSeq(d, blanks.pos + 1, digits.pos))
    IN  [pos |-> digits.pos, top |-> digits.top,
         val |-> IF val.some THEN KbToBytes(val.val) ELSE old]

\* one iteration of the loop of parse_meminfo (proc.rs 95-179); exit tells
\* whether it ended in the break
MemIteration(d, s) ==
    LET t == TagTestIf(s.total = ZeroBytes, d, s.pos, mem_total_tag, s.top)
        a == TagTestIf(s.available = ZeroBytes, d, s.pos, mem_available_tag, t.top)
        f == TagTestIf(s.free = ZeroBytes, d, s.pos, mem_free_tag, a.top)
        total == MemField(d, s.pos, mem_total_tag, t.top, s.total)
        available == MemField(d, s.pos, mem_available_tag, a.top, s.available)
        free == MemField(d, s.pos, mem_free_tag, f.top, s.free)
        line == WhileScan(d, s.pos, f.top, "line")
    IN  IF t.hit
        THEN [s EXCEPT !.pos = total.pos, !.top = total.top, !.total = total.val]
        ELSE IF a.hit
        THEN [s EXCEPT !.pos = available.pos, !.top = available.top,
                       !.available = available.val]
        ELSE IF f.hit
        THEN [s EXCEPT !.pos = free.pos, !.top = free.top, !.free = free.val]
        ELSE [s EXCEPT !.pos = line.pos + 1, !.top = line.top,
                       !.exit = /\ BytesGt(s.total, ZeroBytes)
                                /\ BytesGt(s.available, ZeroBytes) \/ BytesGt(s.free, ZeroBytes)]

\* s.trim().parse::<f32>() succeeds, for the digits-and-point texts the file
\* holds
ParsesAsF32(text) ==
    /\ \E i \in 1..Len(text) : IsDigit(text[i])
    /\ \A i \in 1..Len(text) : IsDigit(text[i]) \/ text[i] = "."
    /\ Cardinality({i \in 1..Len(text) : text[i] = "."}) <= 1

\* proc.rs 62-66: cpu_mhz is the formatted frequency of a number, and the
\* text as it is otherwise; of the formatted string only its source is kept
Frequency(text) ==
    IF ParsesAsF32(Trim(text)) THEN [ghz |-> TRUE, of |-> Trim(text)]
    ELSE [ghz |-> FALSE, of |-> text]

\* String::new() and is_empty() for cpu_mhz
NoFrequency == [ghz |-> FALSE, of |-> <<>>]

\* one iteration of the loop of parse_cpu_info (proc.rs 28-76)
CpuIteration(d, s) ==
    LET m == TagTestIf(s.model_name = <<>>, d, s.pos, model_tag, s.top)
        f == TagTestIf(s.cpu_mhz = NoFrequency, d, s.pos, mhz_tag, m.top)
        model == WhileScan(d, s.pos + Len(model_tag), m.top, "line")
        mhz == WhileScan(d, s.pos + Len(mhz_tag), f.top, "line")
        line == WhileScan(d, s.pos, f.top, "line")
    IN  IF m.hit
        THEN [s EXCEPT !.pos = model.pos, !.top = model.top,
                       !.model_name = SubSeq(d, s.pos + Len(model_tag) + 1, model.pos)]
        ELSE IF f.hit
        THEN [s EXCEPT !.pos = mhz.pos, !.top = mhz.top,
                       !.cpu_mhz = Frequency(SubSeq(d, s.pos + Len(mhz_tag) + 1, mhz.pos))]
        ELSE [s EXCEPT !.pos = line.pos + 1, !.top = line.top]

\* texts of which every prefix is scanned
MeminfoTexts == {
    <<"M", "e", "m", "T", "o", "t", "a", "l", ":", " ", "1", "0", "0", " ", "k", "B", "\n", "M", "e", "m", "F", "r", "e", "e", ":", " ", "3", "0", " ", "k", "B", "\n", "M", "e", "m", "A", "v", "a", "i", "l", "a", "b", "l", "e", ":", "\t", "4", "0", " ", "k", "B", "\n">>,
    <<"B", "u", "f", "f", "e", "r", "s", ":", " ", "7", " ", "k", "B", "\n", "M", "e", "m", "A", "v", "a", "i", "l", "a", "b", "l", "e", ":", " ", "8", " ", "k", "B", "\n", "M", "e", "m", "T", "o", "t", "a", "l", ":", " ", " ", "0", " ", "k", "B", "\n", "M", "e", "m", "T", "o", "t", "a", "l", ":", "\t", "9">>,
    <<"M", "e", "m", "F", "r", "e", "e", ":", "\n", "\n", "M", "e", "m", "T", "o", "t", "a", "l", ":", " ", "5", "M", "e", "m", "F", "r", "e", "e", ":", " ", "6", "0">> }

CpuinfoTexts == {
    <<"p", "r", "o", "c", "e", "s", "s", "o", "r", "\t", ":", " ", "0", "\n", "m", "o", "d", "e", "l", " ", "n", "a", "m", "e", "\t", ":", " ", "R", "7", " ", "8", "-", "C", "o", "r", "e", "\n", "c", "p", "u", " ", "M", "H", "z", "\t", "\t", ":", " ", "3", "4", "0", "0", ".", "0", "0", "0", "\n">>,
    <<"m", "o", "d", "e", "l", " ", "n", "a", "m", "e", "\t", ":", " ", "\n", "c", "p", "u", " ", "M", "H", "z", "\t", "\t", ":", " ", "x", "\n", "m", "o", "d", "e", "l", " ", "n", "a", "m", "e", "\t", ":", " ", "X", "\n", "c", "p", "u", " ", "M", "H", "z", "\t", "\t", ":", " ", "\n">> }

(***************************************************************************)
(* Number parsing: utils.rs parse_number_after                             *)
(***************************************************************************)
\* a u64 is held as four limbs of 16 bits, the lowest first: TLC's integers
\* end at 2^31
Limb == 65536
ZeroU64 == <<0, 0, 0, 0>>

\* value * 10 + digit on u64: the wrapped result, and whether it overflowed
MulAdd(value, digit) ==
    LET l1 == value[1] * 10 + digit
        l2 == value[2] * 10 + (l1 \div Limb)
        l3 == value[3] * 10 + (l2 \div Limb)
        l4 == value[4] * 10 + (l3 \div Limb)
    IN  [value |-> <<l1 % Limb, l2 % Limb, l3 % Limb, l4 % Limb>>,
         overflow |-> l4 \div Limb > 0]

\* the second loop of parse_number_after; overflow tells whether a step went
\* past u64::MAX, and the loop stops there when the build checks arithmetic
RECURSIVE Accumulate(_, _, _, _)
Accumulate(d, pos, value, checked) ==
    IF pos < Len(d) /\ IsDigit(At(d, pos))
    THEN LET next == MulAdd(value, DigitVal(At(d, pos)))
         IN  IF next.overflow /\ checked THEN [pos |-> pos, value |-> value, overflow |-> TRUE]
             ELSE Accumulate(d, pos + 1, next.value, checked)
    ELSE [pos |-> pos, value |-> value, overflow |-> FALSE]

\* parse_number_after; checked is whether the build has overflow checks (a
\* debug build panics on overflow, a release build wraps)
parse_number_after(d, offset, checked) ==
    LET start == SkipBlanks(d, offset)
        run == Accumulate(d, start, ZeroU64, checked)
    IN  IF run.overflow THEN Fault
        ELSE IF run.pos > start THEN Ok(Some([value |-> run.value, pos |-> run.pos]))
        ELSE Ok(None)

\* bound: number of pieces a buffer is made of
MaxNumberPieces == 3

\* the pieces: a space, a tab, a letter, a digit, a number with a leading zero,
\* u64::MAX and the number after it
NumberPieces == <<<<" ">>, <<"\t">>, <<"k">>, <<"7">>, <<"0", "4", "2">>,
                  <<"1", "8", "4", "4", "6", "7", "4", "4", "0", "7", "3", "7", "0", "9", "5", "5", "1", "6", "1", "5">>,
                  <<"1", "8", "4", "4", "6", "7", "4", "4", "0", "7", "3", "7", "0", "9", "5", "5", "1", "6", "1", "6">>>>

(***************************************************************************)
(* Collector and compositor: main.rs, os.rs, shell.rs, theme.rs, utils.rs  *)
(***************************************************************************)
Unset == "<unset>"
Workers == {"shell", "theme", "icons"}

\* the value slot of a thread that has returned nothing (yet)
NoValue(w) == IF w = "shell" THEN <<>> ELSE ""

\* the whitelist of the cache initialiser
CachedNames == {"XDG_CURRENT_DESKTOP", "XDG_SESSION_TYPE", "SHELL", "TERM", "WAYLAND_DISPLAY",
                "DISPLAY", "DESKTOP_SESSION", "GTK_THEME", "ICON_THEME"}

\* the bytes of the SHELL values the environments take
PathChars ==
    [p \in {"/bin/zsh", "fish", "/opt/", "/bin/sh"} |->
        CASE p = "/bin/zsh" -> <<"/", "b", "i", "n", "/", "z", "s", "h">>
          [] p = "fish" -> <<"f", "i", "s", "h">>
          [] p = "/opt/" -> <<"/", "o", "p", "t", "/">>
          [] p = "/bin/sh" -> <<"/", "b", "i", "n", "/", "s", "h">>]

\* the environments a run can start in
Environments ==
    {[n \in CachedNames |->
        CASE n = "SHELL" -> sh
          [] n = "XDG_SESSION_TYPE" -> st
          [] n = "XDG_CURRENT_DESKTOP" -> de
          [] n = "GTK_THEME" -> th
          [] n = "TERM" -> "xterm"
          [] OTHER -> Unset] :
        sh \in {Unset, "/bin/zsh", "fish", "/opt/"}, st \in {Unset, "wayland"},
        de \in {Unset, "GNOME"}, th \in {Unset, "Nord"}}

\* std::env::var(name).unwrap_or(default)
EnvOr(env, name, default) == IF env[name] = Unset THEN default ELSE env[name]

\* the cache initialiser: the whitelisted variables that are set
EnvCacheInit(env) == [n \in CachedNames |-> env[n]]

\* mutant: a cell that runs its initialiser on every access
ForceAlways(cell, env) ==
    [init |-> TRUE, map |-> EnvCacheInit(env), runs |-> cell.runs + 1]

\* Lazy::force, and the deref of the cell: the initialiser runs once
Force(cell, env) ==
    IF cell.init THEN cell
    ELSE [init |-> TRUE, map |-> EnvCacheInit(env), runs |-> cell.runs + 1]

\* get_env_var: ENV_CACHE.get(name).map_or(default, |val| val)
get_env_var(cell, name, default) ==
    IF cell.map[name] = Unset THEN default ELSE cell.map[name]

\* index of the last '/' of a path (0-based), or -1: str::rfind
RECURSIVE RFindSlash(_, _)
RFindSlash(path, i) ==
    IF i < 0 THEN -1 ELSE IF At(path, i) = "/" THEN i ELSE RFindSlash(path, i - 1)

\* the text after the last '/', or the whole path without one
ShellName(path) ==
    LET idx == RFindSlash(path, Len(path) - 1)
    IN  IF idx >= 0 THEN SubSeq(path, idx + 2, Len(path)) ELSE path

\* what the version thread can return: for a known shell the name with the
\* version its binary reports, or the name alone; else the executable name
ShellVersions(path) ==
    LET name == ShellName(path)
    IN  IF name \in {<<"z", "s", "h">>, <<"b", "a", "s", "h">>, <<"f", "i", "s", "h">>}
        THEN {name, name \o <<" ", "5", ".", "9">>}
        ELSE {name}

\* mutant: the fallback is the whole shell path
join_version_thread_whole_path(w, path) ==
    IF w.state = "returned" THEN w.val ELSE path

\* join_version_thread: handle.join().unwrap_or_else(|_| shell_name)
join_version_thread(w, path) ==
    IF w.state = "returned" THEN w.val ELSE ShellName(path)

\* join_theme_detection_thread, join_icon_detection_thread
join_theme_detection_thread(w) ==
    IF w.state = "returned" THEN w.val ELSE "Unknown"

\* detect_gtk_theme_internal / detect_icon_theme_internal: the variable if set
\* and not empty, else a desktop query tool's answer, else a configuration
\* file's value, else "Unknown"
detect_theme(envval, tool, file) ==
    IF envval # Unset /\ envval # "" THEN envval
    ELSE IF tool # Unset THEN tool
    ELSE IF file # Unset THEN file
    ELSE "Unknown"

\* the number of lines of ARCH_LOGO
LogoLineCount == 19

\* info_lines as main builds them from the snapshot
BuildInfoLinesOf(i) ==
    <<[label |-> "header", value |-> i.hostname],
      [label |-> "divider", value |-> "-----------------"],
      [label |-> "OS", value |-> i.os_name],
      [label |-> "Kernel", value |-> i.kernel],
      [label |-> "Uptime", value |-> i.uptime],
      [label |-> "Shell", value |-> i.shell],
      [label |-> "Resolution", value |-> i.resolution],
      [label |-> "DE", value |-> i.de],
      [label |-> "WM", value |-> i.wm],
      [label |-> "Theme", value |-> i.theme],
      [label |-> "Icons", value |-> i.icons],
      [label |-> "Terminal", value |-> i.terminal],
      [label |-> "CPU", value |-> i.cpu_info],
      [label |-> "Memory", value |-> i.memory]>>

NoInfo == [hostname |-> "", os_name |-> "", kernel |-> "", uptime |-> "", shell |-> <<>>,
           terminal |-> "", de |-> "", wm |-> "", theme |-> "", icons |-> "",
           resolution |-> "", cpu_info |-> "", memory |-> ""]

MainIdle ==
    /\ pc = "idle"
    /\ environ = [n \in CachedNames |-> Unset]
    /\ shell_path = <<>>
    /\ ENV_CACHE = [init |-> FALSE, map |-> [n \in CachedNames |-> Unset], runs |-> 0]
    /\ lookups = <<>>
    /\ worker = [w \in Workers |-> [state |-> "unspawned", val |-> NoValue(w)]]
    /\ joined = {}
    /\ locals = [de |-> "", session |-> "", terminal |-> ""]
    /\ info = NoInfo
    /\ collected = NoInfo
    /\ info_lines = <<>>
    /\ rows = 0
    /\ elapsed_shown = FALSE

MemIdle ==
    /\ mem_made = [full |-> FALSE, lines |-> <<>>]
    /\ data = <<>>
    /\ meminfo = [used |-> ZeroBytes, total |-> ZeroBytes, free |-> ZeroBytes,
                  available |-> ZeroBytes]
    /\ mmap_ok = TRUE
    /\ sysinfo = [totalram |-> 1, freeram |-> 0, mem_unit |-> 1]
    /\ memory_info = [used |-> ZeroBytes, total |-> ZeroBytes]

EdidIdle ==
    /\ edid_made = [encoded |-> FALSE, h |-> 0, v |-> 0]
    /\ edid = <<>>
    /\ resolution = Ok(None)

DrmIdle ==
    /\ drm_exists = FALSE
    /\ connectors = <<>>
    /\ drm_order = <<>>
    /\ screen_resolution = <<>>

ThemeIdle ==
    /\ theme_setup = <<>>
    /\ theme_found = <<>>

CpuIdle ==
    /\ cpuinfo_model = <<>>
    /\ model_name = <<>>

DistroIdle ==
    /\ release_files = <<>>
    /\ distribution = <<>>

ScanIdle ==
    /\ scan_input = <<>>
    /\ scan = <<>>

NumberIdle ==
    /\ number_input = <<>>
    /\ number = <<>>

ParseIdle == ThemeIdle /\ CpuIdle /\ DistroIdle /\ ScanIdle /\ NumberIdle

ArtIdle ==
    /\ logo_def = [colors |-> <<>>, ascii_art |-> <<>>]
    /\ processed = [ascii_art |-> <<>>, max_line_length |-> 0]
    /\ art_kind = "static"
    /\ art_info = <<>>
    /\ screen = [logo_lines |-> <<>>, line_widths |-> <<>>, logo_width |-> 0, rows |-> <<>>]

LogoIdle ==
    /\ logo_source = <<>>
    /\ LOGOS = <<>>
    /\ bs_impl = "classic"
    /\ distro_name = <<>>
    /\ found = None

InitLogo ==
    /\ mode = "build"
    /\ ParseIdle
    /\ EdidIdle
    /\ MemIdle
    /\ MainIdle
    /\ DrmIdle
    /\ ArtIdle
    /\ logo_source \in Catalogues
    /\ LOGOS = <<>>
    /\ bs_impl \in {"classic", "branchless"}
    /\ distro_name = <<>>
    /\ found = None

\* build.rs main: extract_logos, then the table is written out as LOGOS
BuildLogos ==
    /\ mode = "build"
    /\ mode' = "lookup"
    /\ LOGOS' = extract_logos(logo_source)
    /\ UNCHANGED <<logo_source, bs_impl, distro_name, found>>
    /\ UNCHANGED <<edidVars, memVars, mainVars, drmVars, artVars, parseVars>>

\* a call of find_logo on the generated table
FindLogo ==
    /\ mode = "lookup"
    /\ \E name \in Identifiers :
          /\ distro_name' = name
          /\ found' = find_logo(LOGOS, name, bs_impl)
    /\ mode' = "looked"
    /\ UNCHANGED <<logo_source, LOGOS, bs_impl>>
    /\ UNCHANGED <<edidVars, memVars, mainVars, drmVars, artVars, parseVars>>

NextLogo == BuildLogos \/ FindLogo

SpecLogo == InitLogo /\ [][NextLogo]_vars

\* C1: on a built table, looking up the name of a non-wildcard entry returns a
\* non-wildcard entry of that name.
C1_ExactLookupFindsEntry ==
    (mode = "looked" /\ \E i \in 1..Len(LOGOS) :
                            ~LOGOS[i].is_wildcard /\ LOGOS[i].name = distro_name)
        => /\ found.some
           /\ ~At(LOGOS, found.val).is_wildcard
           /\ At(LOGOS, found.val).name = distro_name

\* C2: when the table holds an exact non-wildcard entry and a wildcard entry
\* whose name is a prefix of the identifier, the exact entry is returned.
C2_ExactBeatsWildcard ==
    (/\ mode = "looked"
     /\ \E i \in 1..Len(LOGOS) : ~LOGOS[i].is_wildcard /\ LOGOS[i].name = distro_name
     /\ \E j \in 1..Len(LOGOS) : LOGOS[j].is_wildcard /\ StartsWith(distro_name, LOGOS[j].name))
        => /\ found.some
           /\ ~At(LOGOS, found.val).is_wildcard
           /\ At(LOGOS, found.val).name = distro_name
\* whether entry i (0-based) of the table is a wildcard whose name is a prefix
\* of the identifier
WildcardPrefixAt(i) ==
    At(LOGOS, i).is_wildcard /\ StartsWith(distro_name, At(LOGOS, i).name)

NoExactEntry ==
    \A i \in 1..Len(LOGOS) : LOGOS[i].is_wildcard \/ LOGOS[i].name # distro_name

\* C14: when no non-wildcard entry is named as the identifier, find_logo returns
\* the first entry in table order that is a wildcard and whose name is a prefix
\* of the identifier; a non-wildcard entry whose name is only a prefix of the
\* identifier is never returned.
C14_FirstWildcardPrefix ==
    (mode = "looked" /\ NoExactEntry)
        => /\ (\E i \in 0..(Len(LOGOS) - 1) : WildcardPrefixAt(i))
                 => /\ found.some
                    /\ WildcardPrefixAt(found.val)
                    /\ \A j \in 0..(found.val - 1) : ~WildcardPrefixAt(j)
           /\ found.some => At(LOGOS, found.val).is_wildcard

\* a lookup that passed a non-wildcard prefix entry and an earlier non-matching
\* wildcard, and returned a wildcard that has another matching wildcard after it
C14_Witness ==
    /\ mode = "looked"
    /\ NoExactEntry
    /\ found.some
    /\ found.val > 0
    /\ WildcardPrefixAt(found.val)
    /\ \E i \in 0..(found.val - 1) :
           ~At(LOGOS, i).is_wildcard /\ StartsWith(distro_name, At(LOGOS, i).name)
    /\ \E j \in (found.val + 1)..(Len(LOGOS) - 1) : WildcardPrefixAt(j)

\* C15: find_logo returns None for every identifier that no entry is named as
\* and no wildcard entry's name is a prefix of; and every lookup, of the empty
\* identifier and on the empty table too, ends with None or an entry of the table.
C15_MissIsNone ==
    mode = "looked"
        => /\ found = None \/ (found.some /\ found.val \in 0..(Len(LOGOS) - 1))
           /\ (/\ \A i \in 1..Len(LOGOS) : LOGOS[i].name # distro_name
               /\ \A i \in 0..(Len(LOGOS) - 1) : ~WildcardPrefixAt(i))
                 => found = None

\* a miss of the empty identifier on a table with wildcards, and a miss on the
\* empty table, are both reached
C15_Witness ==
    /\ mode = "looked"
    /\ found = None
    /\ distro_name = <<>>
    /\ Len(LOGOS) >= 2
    /\ \E i \in 1..Len(LOGOS) : LOGOS[i].is_wildcard

InitEdid ==
    /\ mode = "read"
    /\ ParseIdle
    /\ LogoIdle
    /\ MemIdle
    /\ MainIdle
    /\ DrmIdle
    /\ ArtIdle
    /\ \/ /\ edid_made = [encoded |-> FALSE, h |-> 0, v |-> 0]
          /\ edid \in RawEdids
       \/ \E h \in ResSamples, v \in ResSamples, b59 \in {0, 255} :
             /\ edid_made = [encoded |-> TRUE, h |-> h, v |-> v]
             /\ edid = EncodeResolution(h, v, b59)
    /\ resolution = Ok(None)

\* get_drm_resolution hands the bytes of one edid file to the decoder
ParseEdid ==
    /\ mode = "read"
    /\ mode' = "parsed"
    /\ resolution' = parse_edid_resolution(edid)
    /\ UNCHANGED <<edid_made, edid, logoVars, memVars, mainVars, drmVars, artVars, parseVars>>

NextEdid == ParseEdid

SpecEdid == InitEdid /\ [][NextEdid]_vars

\* the first 8 bytes of a block, as far as it has them
HeaderOf(e) == SubSeq(e, 1, IF Len(e) < 8 THEN Len(e) ELSE 8)

\* C3: a slice shorter than 128 bytes, or one whose first 8 bytes are not the
\* magic header, decodes to absent and the decoder does not panic on it.
C3_ShortOrBadHeaderIsAbsent ==
    (mode = "parsed" /\ (Len(edid) < 128 \/ HeaderOf(edid) # <<0, 255, 255, 255, 255, 255, 255, 0>>))
        => resolution = Ok(None)

C3_Witness ==
    /\ mode = "parsed"
    /\ Len(edid) = 7
    /\ resolution = Ok(None)

C17_BothNonzero ==
    (/\ mode = "parsed"
     /\ Len(edid) >= 128
     /\ SubSeq(edid, 1, 8) = <<0, 255, 255, 255, 255, 255, 255, 0>>)
        => /\ ~resolution.fault
           /\ resolution.ret.some
                 <=> /\ (edid[59] \div 16) * 256 + edid[57] > 0
                     /\ (edid[59] % 16) * 256 + edid[58] > 0

\* a valid block whose horizontal value is 0 and whose vertical is not
C17_Witness ==
    /\ mode = "parsed"
    /\ edid_made.encoded
    /\ edid_made.h = 0
    /\ edid_made.v = 256
    /\ resolution = Ok(None)

\* C21: on a valid block the decoded vertical value is byte 59 + 256 * (byte
\* 58 mod 16) and the horizontal one byte 56 + 256 * (byte 58 div 16), so the
\* result is a function of the header and of bytes 56, 58 and 59 alone.
C21_VerticalFromByte59 ==
    (/\ mode = "parsed"
     /\ Len(edid) >= 128
     /\ SubSeq(edid, 1, 8) = <<0, 255, 255, 255, 255, 255, 255, 0>>)
        => LET h == edid[57] + 256 * (edid[59] \div 16)
               v == edid[60] + 256 * (edid[59] % 16)
           IN  resolution = [fault |-> FALSE,
                             ret |-> IF h > 0 /\ v > 0
                                     THEN [some |-> TRUE, val |-> Dec(h) \o <<"x">> \o Dec(v)]
                                     ELSE [some |-> FALSE]]

InitArt ==
    /\ mode = "art"
    /\ ParseIdle
    /\ LogoIdle
    /\ EdidIdle
    /\ MemIdle
    /\ MainIdle
    /\ DrmIdle
    /\ \E colors \in ColorLists, n \in 0..MaxArtPieces :
          \E choice \in [1..n -> 1..Len(ArtPieces)] :
              logo_def = [colors |-> colors, ascii_art |-> ArtText(choice)]
    /\ processed = [ascii_art |-> <<>>, max_line_length |-> 0]
    /\ art_kind \in {"static", "generated"}
    /\ art_info \in InfoChoices
    /\ screen = [logo_lines |-> <<>>, line_widths |-> <<>>, logo_width |-> 0, rows |-> <<>>]

\* build.rs main: process_logos on the extracted definition
ProcessLogos ==
    /\ mode = "art"
    /\ mode' = "processed"
    /\ \E order \in IterationOrders(ColorMapKeys(logo_def.colors)) :
          processed' = process_logos(logo_def, order)
    /\ UNCHANGED <<logo_def, art_kind, art_info, screen>>
    /\ UNCHANGED <<logoVars, edidVars, memVars, mainVars, drmVars, parseVars>>

\* main.rs 459-510 on the art text: the static text as written, or the
\* generated ascii_art
Compose ==
    /\ mode = "processed"
    /\ mode' = "composed"
    /\ screen' = compose(IF art_kind = "static" THEN logo_def.ascii_art
                         ELSE processed.ascii_art,
                         art_info)
    /\ UNCHANGED <<logo_def, processed, art_kind, art_info>>
    /\ UNCHANGED <<logoVars, edidVars, memVars, mainVars, drmVars, parseVars>>

NextArt == ProcessLogos \/ Compose

SpecArt == InitArt /\ [][NextArt]_vars

\* the number of characters of a line that are outside escape sequences: an
\* escape sequence runs from the escape character to the next m
RECURSIVE VisibleLen(_, _, _)
VisibleLen(line, pos, in_escape) ==
    IF pos >= Len(line) THEN 0
    ELSE IF in_escape THEN VisibleLen(line, pos + 1, At(line, pos) # "m")
    ELSE IF At(line, pos) = "ESC" THEN VisibleLen(line, pos + 1, TRUE)
    ELSE 1 + VisibleLen(line, pos + 1, FALSE)

\* the same count with the characters of ${cN} placeholders left out too
RECURSIVE VisibleInArt(_, _, _)
VisibleInArt(line, pos, in_escape) ==
    IF pos >= Len(line) THEN 0
    ELSE IF in_escape THEN VisibleInArt(line, pos + 1, At(line, pos) # "m")
    ELSE IF At(line, pos) = "ESC" THEN VisibleInArt(line, pos + 1, TRUE)
    ELSE IF PlaceholderAt(line, pos) > 0
         THEN VisibleInArt(line, pos + PlaceholderAt(line, pos), FALSE)
    ELSE 1 + VisibleInArt(line, pos + 1, FALSE)

\* C11: max_line_length of a processed entry is the maximum, over the lines of
\* its final ascii_art, of the number of characters that are in neither an
\* escape sequence nor a ${cN} placeholder, defined colour or not.
C11_MaxLineLengthIsVisible ==
    mode \in {"processed", "composed"} =>
        LET lines == Lines(processed.ascii_art)
        IN  processed.max_line_length
                = MaxOf([i \in 1..Len(lines) |-> VisibleInArt(lines[i], 0, FALSE)])

\* an entry whose first placeholder has no colour and stays in the final art,
\* whose second is replaced by a 256-colour code, measured as 1
C11_Witness ==
    /\ mode = "processed"
    /\ logo_def.colors = <<0, 200>>
    /\ logo_def.ascii_art = <<"$", "{", "c", "1", "}", "$", "{", "c", "2", "}", "m">>
    /\ processed.max_line_length = 1
    /\ Len(processed.ascii_art) = 21

ArtGiven == IF art_kind = "static" THEN logo_def.ascii_art ELSE processed.ascii_art

Blank(str) == \A i \in 1..Len(str) : str[i] = " "

\* C27: the compositor prints as many rows as the longer column has lines;
\* row i holds art line i as it is (blank when the art has ended) and info
\* line i (nothing when the info has ended), so each line is printed once, in
\* order.
C27_RowsPairLines ==
    mode = "composed" =>
        LET art_lines == Lines(ArtGiven)
        IN  /\ Len(screen.rows) = Max(Len(art_lines), Len(art_info))
            /\ \A i \in 1..Len(screen.rows) :
                   LET line == IF i <= Len(art_lines) THEN art_lines[i] ELSE <<>>
                       row == screen.rows[i]
                   IN  /\ StartsWith(row.art, line)
                       /\ Blank(SubSeq(row.art, Len(line) + 1, Len(row.art)))
                       /\ row.info = IF i <= Len(art_info) THEN art_info[i] ELSE <<>>

\* one art line beside four info lines: the last row has a blank art column
C27_Witness ==
    /\ mode = "composed"
    /\ Len(screen.logo_lines) = 1 /\ Len(art_info) = 4
    /\ Len(screen.rows) = 4
    /\ Blank(screen.rows[4].art)
    /\ screen.rows[4].info = art_info[4]

\* the escape sequence that starts at pos: up to and with the next m
EscapeAt(text, pos) ==
    LET end == CHOOSE e \in pos..Len(text) :
                   /\ e = Len(text) \/ At(text, e) = "m"
                   /\ \A k \in pos..(e - 1) : At(text, k) # "m"
    IN  SubSeq(text, pos + 1, IF end < Len(text) THEN end + 1 ELSE Len(text))

\* the colour in force after text: the last escape sequence seen, none after
\* a reset
RECURSIVE ActiveColour(_, _, _)
ActiveColour(text, pos, active) ==
    IF pos >= Len(text) THEN active
    ELSE IF At(text, pos) = ESC
    THEN LET seq == EscapeAt(text, pos)
         IN  ActiveColour(text, pos + Len(seq), IF seq = RESET THEN <<>> ELSE seq)
    ELSE ActiveColour(text, pos + 1, active)

InitDrm ==
    /\ mode = "drm"
    /\ ParseIdle
    /\ LogoIdle
    /\ EdidIdle
    /\ MemIdle
    /\ MainIdle
    /\ ArtIdle
    /\ \/ /\ drm_exists = TRUE
          /\ \E n \in 0..MaxConnectors : \E kinds \in [1..n -> ConnectorKinds] :
                connectors = DrmListing(kinds)
       \/ drm_exists = FALSE /\ connectors = <<>>
    /\ drm_order = <<>>
    /\ screen_resolution = <<>>

\* a call of get_screen_resolution
GetScreenResolution ==
    /\ mode = "drm"
    /\ mode' = "labelled"
    /\ \E order \in IterationOrders(DOMAIN Resolutions(active_connectors(connectors))) :
          /\ drm_order' = order
          /\ screen_resolution' = get_screen_resolution(drm_exists, connectors, order)
    /\ UNCHANGED <<drm_exists, connectors>>
    /\ UNCHANGED <<logoVars, edidVars, memVars, mainVars, artVars, parseVars>>

NextDrm == GetScreenResolution

SpecDrm == InitDrm /\ [][NextDrm]_vars

\* the entries whose descriptor is readable and decodes, as they were made
Decoding == {i \in 1..Len(connectors) : connectors[i].shows # <<>>}

RECURSIVE JoinShown(_)
JoinShown(idx) ==
    IF idx = <<>> THEN <<>>
    ELSE IF Len(idx) = 1 THEN connectors[idx[1]].shows
    ELSE JoinShown(SubSeq(idx, 1, Len(idx) - 1)) \o <<",", " ">> \o connectors[idx[Len(idx)]].shows

\* C18: the label is the resolutions of exactly the connectors that decode,
\* each once, in some order, joined by ", "; a connector that does not decode
\* adds nothing and removes nothing; the label is "Unknown" exactly when no
\* connector decodes.
C18_LabelJoinsDecoded ==
    mode = "labelled" =>
        /\ (screen_resolution = <<"U", "n", "k", "n", "o", "w", "n">>) <=> (Decoding = {})
        /\ Decoding # {} =>
              \E idx \in [1..Cardinality(Decoding) -> Decoding] :
                  /\ \A i, j \in DOMAIN idx : idx[i] = idx[j] => i = j
                  /\ screen_resolution = JoinShown(idx)

\* two decoding connectors with one that does not decode between them
C18_Witness ==
    /\ mode = "labelled"
    /\ Len(connectors) = 3
    /\ connectors[1].shows # <<>>
    /\ connectors[2].shows = <<>> /\ IsActive(connectors[2])
    /\ connectors[3].shows # <<>> /\ connectors[3].shows # connectors[1].shows
    /\ Len(screen_resolution) = 20

InitMem ==
    /\ mode = "mapped"
    /\ ParseIdle
    /\ LogoIdle
    /\ EdidIdle
    /\ MainIdle
    /\ DrmIdle
    /\ ArtIdle
    /\ \/ \E ls \in LineChoices :
             /\ mem_made = [full |-> FALSE, lines |-> ls]
             /\ data = Concat([i \in 1..Len(ls) |-> MemLines[ls[i]]])
             /\ mmap_ok = TRUE
       \/ \E m \in Amounts :
             /\ mem_made = [full |-> TRUE, amounts |-> m]
             /\ data = FullMeminfo(m)
             /\ mmap_ok = TRUE
       \/ /\ mem_made = [full |-> FALSE, lines |-> <<>>]
          /\ data = <<>>
          /\ mmap_ok = FALSE
    /\ meminfo = [used |-> ZeroBytes, total |-> ZeroBytes, free |-> ZeroBytes,
                  available |-> ZeroBytes]
    /\ sysinfo \in SysinfoSamples
    /\ memory_info = [used |-> ZeroBytes, total |-> ZeroBytes]

\* a call of parse_meminfo on the mapped file
ParseMeminfo ==
    /\ mode = "mapped"
    /\ mmap_ok
    /\ mode' = "scanned"
    /\ meminfo' = parse_meminfo(data)
    /\ UNCHANGED <<mem_made, data, mmap_ok, sysinfo, memory_info>>
    /\ UNCHANGED <<logoVars, edidVars, mainVars, drmVars, artVars, parseVars>>

\* a call of get_memory_info
GetMemoryInfo ==
    /\ mode = "mapped"
    /\ mode' = "reported"
    /\ memory_info' = get_memory_info(mmap_ok, data, sysinfo)
    /\ UNCHANGED <<mem_made, data, meminfo, mmap_ok, sysinfo>>
    /\ UNCHANGED <<logoVars, edidVars, mainVars, drmVars, artVars, parseVars>>

NextMem == ParseMeminfo \/ GetMemoryInfo

SpecMem == InitMem /\ [][NextMem]_vars

\* C5: for a buffer with MemTotal, MemFree, Buffers, Cached, SReclaimable and
\* Shmem lines, used = (total - free - buffers - cached - reclaimable + shmem)
\* * 1024 and total = total * 1024 (stated where the difference is not negative).
C5_UsedFormula ==
    (mode = "scanned" /\ mem_made.full) =>
        LET m == mem_made.amounts
            rest == m.total - m.free - m.buffers - m.cached - m.reclaimable
        IN  rest >= 0 =>
                /\ meminfo.used = KbToBytes(rest + m.shmem)
                /\ meminfo.total = KbToBytes(m.total)

\* the label occurs in d at the buffer start or right after a newline
AtLineStart(d, tag) ==
    \E p \in 0..(Len(d) - 1) :
        /\ p = 0 \/ At(d, p - 1) = "\n"
        /\ p + Len(tag) <= Len(d)
        /\ SubSeq(d, p + 1, p + Len(tag)) = tag

\* C6: a field is set only from a label that stands at the buffer start or
\* right after a newline; a label elsewhere in a line sets nothing.
C6_LabelOnlyAtLineStart ==
    mode = "scanned" =>
        /\ meminfo.total # ZeroBytes => AtLineStart(data, mem_total_tag)
        /\ meminfo.free # ZeroBytes => AtLineStart(data, mem_free_tag)
        /\ meminfo.available # ZeroBytes => AtLineStart(data, mem_available_tag)

\* C16: used never underflows. With sub the amount the scanner subtracts
\* (MemAvailable, or MemFree when that is 0): used is 0 whenever sub exceeds
\* total, and otherwise used + sub = total; used is never negative.
C16_UsedNeverUnderflows ==
    mode = "scanned" =>
        LET sub == IF meminfo.available # ZeroBytes THEN meminfo.available ELSE meminfo.free
            used == meminfo.used
            total == meminfo.total
            lo_sum == used.lo + sub.lo
        IN  /\ used.hi >= 0
            /\ used.lo \in 0..1023
            /\ IF sub.hi > total.hi \/ (sub.hi = total.hi /\ sub.lo > total.lo)
               THEN used = [hi |-> 0, lo |-> 0]
               ELSE /\ used.hi + sub.hi + (lo_sum \div 1024) = total.hi
                    /\ lo_sum % 1024 = total.lo

\* a buffer whose MemFree exceeds its nonzero MemTotal, scanned to used = 0
C16_Witness ==
    /\ mode = "scanned"
    /\ meminfo.total = [hi |-> 1000, lo |-> 0]
    /\ meminfo.free = [hi |-> 8000000, lo |-> 0]
    /\ meminfo.available = [hi |-> 0, lo |-> 0]
    /\ meminfo.used = [hi |-> 0, lo |-> 0]

\* the label occurs somewhere in the buffer
Occurs(d, tag) ==
    \E p \in 0..(Len(d) - Len(tag)) : SubSeq(d, p + 1, p + Len(tag)) = tag

\* what the sysinfo call gives: total = totalram * mem_unit and
\* used = total - freeram * mem_unit, as byte counts in base 1024
SysinfoValues ==
    LET total == sysinfo.totalram * sysinfo.mem_unit
        used == total - sysinfo.freeram * sysinfo.mem_unit
    IN  [used |-> [hi |-> used \div 1024, lo |-> used % 1024],
         total |-> [hi |-> total \div 1024, lo |-> total % 1024]]

RECURSIVE ScanToEnd(_, _, _, _, _)
ScanToEnd(d, pos, total, free, available) ==
    IF pos >= Len(d) THEN [total |-> total, free |-> free, available |-> available]
    ELSE IF total = ZeroBytes /\ TagAt(d, pos, mem_total_tag)
    THEN LET f == FieldAfter(d, pos, mem_total_tag, total)
         IN  ScanToEnd(d, f.pos, f.val, free, available)
    ELSE IF available = ZeroBytes /\ TagAt(d, pos, mem_available_tag)
    THEN LET f == FieldAfter(d, pos, mem_available_tag, available)
         IN  ScanToEnd(d, f.pos, total, free, f.val)
    ELSE IF free = ZeroBytes /\ TagAt(d, pos, mem_free_tag)
    THEN LET f == FieldAfter(d, pos, mem_free_tag, free)
         IN  ScanToEnd(d, f.pos, total, f.val, available)
    ELSE ScanToEnd(d, SkipLine(d, pos) + 1, total, free, available)

\* C22: the early exit does not change the result: used and total are those of
\* a scan that runs to the end of the buffer, so with both a MemAvailable and a
\* MemFree line, in either order, used is total - MemAvailable.
C22_EarlyExitKeepsResult ==
    mode = "scanned" =>
        LET l == ScanToEnd(data, 0, ZeroBytes, ZeroBytes, ZeroBytes)
            free_mem == IF l.available # ZeroBytes THEN l.available ELSE l.free
        IN  /\ meminfo.total = l.total
            /\ meminfo.used = IF BytesGt(l.total, free_mem) THEN BytesSub(l.total, free_mem)
                              ELSE ZeroBytes

InitMain ==
    /\ mode = "run"
    /\ ParseIdle
    /\ LogoIdle
    /\ EdidIdle
    /\ MemIdle
    /\ DrmIdle
    /\ ArtIdle
    /\ pc = "read_shell"
    /\ environ \in Environments
    /\ shell_path = <<>>
    /\ ENV_CACHE = [init |-> FALSE, map |-> [n \in CachedNames |-> Unset], runs |-> 0]
    /\ lookups = <<>>
    /\ worker = [w \in Workers |-> [state |-> "unspawned", val |-> NoValue(w)]]
    /\ joined = {}
    /\ locals = [de |-> "", session |-> "", terminal |-> ""]
    /\ info = NoInfo
    /\ collected = NoInfo
    /\ info_lines = <<>>
    /\ rows = 0
    /\ elapsed_shown = FALSE

\* main.rs 444: shell_path = env::var("SHELL").unwrap_or("/bin/sh")
ReadShell ==
    /\ pc = "read_shell"
    /\ pc' = "spawn_shell"
    /\ shell_path' = PathChars[EnvOr(environ, "SHELL", "/bin/sh")]
    /\ UNCHANGED <<environ, ENV_CACHE, lookups, worker, joined, locals, info, collected,
                   info_lines, rows, elapsed_shown>>
    /\ UNCHANGED nonMainVars

\* thread::spawn of one worker
Spawn(w, at, next) ==
    /\ pc = at
    /\ pc' = next
    /\ worker' = [worker EXCEPT ![w] = [state |-> "running", val |-> NoValue(w)]]
    /\ UNCHANGED <<environ, shell_path, ENV_CACHE, lookups, joined, locals, info, collected,
                   info_lines, rows, elapsed_shown>>
    /\ UNCHANGED nonMainVars

\* main.rs 445, 447
SpawnShell == Spawn("shell", "spawn_shell", "spawn_theme")
SpawnTheme == Spawn("theme", "spawn_theme", "spawn_icons")

\* mutant: main goes on to its own work without starting the icon thread
SpawnIcons_skipped ==
    /\ pc = "spawn_icons"
    /\ pc' = "force_cache"
    /\ UNCHANGED <<environ, shell_path, ENV_CACHE, lookups, worker, joined, locals, info,
                   collected, info_lines, rows, elapsed_shown>>
    /\ UNCHANGED nonMainVars

\* main.rs 448
SpawnIcons == Spawn("icons", "spawn_icons", "force_cache")

\* main.rs 450: Lazy::force(&ENV_CACHE)
ForceEnvCache ==
    /\ pc = "force_cache"
    /\ pc' = "uname"
    /\ ENV_CACHE' = Force(ENV_CACHE, environ)
    /\ UNCHANGED <<environ, shell_path, lookups, worker, joined, locals, info, collected,
                   info_lines, rows, elapsed_shown>>
    /\ UNCHANGED nonMainVars

\* os.rs 185: uname().unwrap() panics when the call fails
Uname ==
    /\ pc = "uname"
    /\ \E ok \in BOOLEAN : pc' = IF ok THEN "env_de" ELSE "panicked"
    /\ UNCHANGED <<environ, shell_path, ENV_CACHE, lookups, worker, joined, locals, info,
                   collected, info_lines, rows, elapsed_shown>>
    /\ UNCHANGED nonMainVars

\* a get_env_var call of collect_system_info: the deref forces the cell
Lookup(at, next, name, default, field) ==
    /\ pc = at
    /\ pc' = next
    /\ ENV_CACHE' = Force(ENV_CACHE, environ)
    /\ LET value == get_env_var(ENV_CACHE', name, default)
       IN  /\ lookups' = Append(lookups, [name |-> name, default |-> default,
                                          value |-> value, cell_ready |-> ENV_CACHE.init])
           /\ locals' = [locals EXCEPT ![field] = value]
    /\ UNCHANGED <<environ, shell_path, worker, joined, info, collected, info_lines, rows,
                   elapsed_shown>>
    /\ UNCHANGED nonMainVars

\* os.rs 202, 204, 217
LookupDesktop == Lookup("env_de", "env_session", "XDG_CURRENT_DESKTOP", "Unknown", "de")
LookupSession == Lookup("env_session", "env_term", "XDG_SESSION_TYPE", "", "session")
LookupTerm == Lookup("env_term", "sources", "TERM", "Unknown", "terminal")

\* os.rs 204-215
WindowManager(l) ==
    IF l.session = "wayland"
    THEN IF l.de = "GNOME" THEN "Mutter" ELSE IF l.de = "KDE" THEN "KWin" ELSE "Unknown"
    ELSE "Unknown"

\* what the file and call sources can yield: each falls back, none fails
SourceOutcomes ==
    [resolution : {"Unknown", "1920x1080"},
     cpu_info : {"Unknown CPU (8 cores)", "Ryzen 7 (8)"},
     memory : {"meminfo", "sysinfo"}]

\* os.rs 219-250: the remaining sources, then the SysInfo is built
Sources ==
    /\ pc = "sources"
    /\ pc' = "join_shell"
    /\ \E o \in SourceOutcomes :
          info' = [hostname |-> "host", os_name |-> "Arch Linux x86_64", kernel |-> "6.1",
                   uptime |-> "5 mins", shell |-> <<>>, terminal |-> locals.terminal,
                   de |-> locals.de, wm |-> WindowManager(locals), theme |-> "",
                   icons |-> "", resolution |-> o.resolution, cpu_info |-> o.cpu_info,
                   memory |-> o.memory]
    /\ collected' = info'
    /\ UNCHANGED <<environ, shell_path, ENV_CACHE, lookups, worker, joined, locals, info_lines,
                   rows, elapsed_shown>>
    /\ UNCHANGED nonMainVars

Settled(w) == worker[w].state \in {"returned", "panicked"}

\* mutant: the join does not wait for the thread
JoinReady(w) == worker[w].state # "unspawned"

\* JoinHandle::join returns once the thread has returned or panicked
JoinReturns(w) == Settled(w)

\* main.rs 454-455
JoinShell ==
    /\ pc = "join_shell"
    /\ JoinReturns("shell")
    /\ pc' = "join_theme"
    /\ joined' = joined \cup {"shell"}
    /\ info' = [info EXCEPT !.shell = join_version_thread(worker["shell"], shell_path)]
    /\ UNCHANGED <<environ, shell_path, ENV_CACHE, lookups, worker, locals, collected,
                   info_lines, rows, elapsed_shown>>
    /\ UNCHANGED nonMainVars

\* main.rs 456
JoinTheme ==
    /\ pc = "join_theme"
    /\ JoinReturns("theme")
    /\ pc' = "join_icons"
    /\ joined' = joined \cup {"theme"}
    /\ info' = [info EXCEPT !.theme = join_theme_detection_thread(worker["theme"])]
    /\ UNCHANGED <<environ, shell_path, ENV_CACHE, lookups, worker, locals, collected,
                   info_lines, rows, elapsed_shown>>
    /\ UNCHANGED nonMainVars

\* main.rs 457
JoinIcons ==
    /\ pc = "join_icons"
    /\ JoinReturns("icons")
    /\ pc' = "build_lines"
    /\ joined' = joined \cup {"icons"}
    /\ info' = [info EXCEPT !.icons = join_theme_detection_thread(worker["icons"])]
    /\ UNCHANGED <<environ, shell_path, ENV_CACHE, lookups, worker, locals, collected,
                   info_lines, rows, elapsed_shown>>
    /\ UNCHANGED nonMainVars

\* main.rs 459-485
BuildInfoLines ==
    /\ pc = "build_lines"
    /\ pc' = "print_rows"
    /\ info_lines' = BuildInfoLinesOf(info)
    /\ UNCHANGED <<environ, shell_path, ENV_CACHE, lookups, worker, joined, locals, info,
                   collected, rows, elapsed_shown>>
    /\ UNCHANGED nonMainVars

\* main.rs 487
max_lines == Max(LogoLineCount, Len(info_lines))

\* main.rs 489-510: one iteration of the row loop, or its end
PrintRow ==
    /\ pc = "print_rows"
    /\ IF rows < max_lines
       THEN rows' = rows + 1 /\ pc' = pc
       ELSE rows' = rows /\ pc' = "print_elapsed"
    /\ UNCHANGED <<environ, shell_path, ENV_CACHE, lookups, worker, joined, locals, info,
                   collected, info_lines, elapsed_shown>>
    /\ UNCHANGED nonMainVars

\* main.rs 512-513
PrintElapsed ==
    /\ pc = "print_elapsed"
    /\ pc' = "done"
    /\ elapsed_shown' = TRUE
    /\ UNCHANGED <<environ, shell_path, ENV_CACHE, lookups, worker, joined, locals, info,
                   collected, info_lines, rows>>
    /\ UNCHANGED nonMainVars

\* a worker thread ends: it returns a value of `vals` or it panics
WorkerEnds(w, vals) ==
    /\ pc \notin {"panicked", "done"}
    /\ worker[w].state = "running"
    /\ \/ \E v \in vals : worker' = [worker EXCEPT ![w] = [state |-> "returned", val |-> v]]
       \/ worker' = [worker EXCEPT ![w] = [state |-> "panicked", val |-> NoValue(w)]]
    /\ UNCHANGED <<pc, environ, shell_path, ENV_CACHE, lookups, joined, locals, info, collected,
                   info_lines, rows, elapsed_shown>>
    /\ UNCHANGED nonMainVars

\* shell.rs 9-22
ShellWorker == WorkerEnds("shell", ShellVersions(shell_path))

\* theme.rs 123-190; the query tool is asked only on a desktop it belongs to
ThemeWorker ==
    WorkerEnds("theme",
               {detect_theme(environ["GTK_THEME"], tool, file) :
                    tool \in IF environ["XDG_CURRENT_DESKTOP"] = Unset THEN {Unset}
                             ELSE {Unset, "Breeze"},
                    file \in {Unset, "Adwaita"}})

\* theme.rs 193-257
IconWorker ==
    WorkerEnds("icons",
               {detect_theme(environ["ICON_THEME"], tool, Unset) :
                    tool \in IF environ["XDG_CURRENT_DESKTOP"] = Unset THEN {Unset}
                             ELSE {Unset, "Papirus"}})

\* the statements of the main thread
MainStep ==
    \/ ReadShell \/ SpawnShell \/ SpawnTheme \/ SpawnIcons \/ ForceEnvCache
    \/ Uname \/ LookupDesktop \/ LookupSession \/ LookupTerm \/ Sources
    \/ JoinShell \/ JoinTheme \/ JoinIcons \/ BuildInfoLines \/ PrintRow \/ PrintElapsed

NextMain ==
    \/ ReadShell \/ SpawnShell \/ SpawnTheme \/ SpawnIcons \/ ForceEnvCache
    \/ Uname \/ LookupDesktop \/ LookupSession \/ LookupTerm \/ Sources
    \/ JoinShell \/ JoinTheme \/ JoinIcons \/ BuildInfoLines \/ PrintRow \/ PrintElapsed
    \/ ShellWorker \/ ThemeWorker \/ IconWorker

SpecMain == InitMain /\ [][NextMain]_vars

\* the main thread keeps running while it can, and so does every worker
FairSpecMain ==
    /\ SpecMain
    /\ WF_vars(MainStep)
    /\ WF_vars(ShellWorker)
    /\ WF_vars(ThemeWorker)
    /\ WF_vars(IconWorker)

\* the statements of main after the join of worker w
AfterJoin(w) ==
    CASE w = "shell" -> pc \in {"join_theme", "join_icons", "build_lines", "print_rows",
                                "print_elapsed", "done"}
      [] w = "theme" -> pc \in {"join_icons", "build_lines", "print_rows", "print_elapsed",
                                "done"}
      [] w = "icons" -> pc \in {"build_lines", "print_rows", "print_elapsed", "done"}

\* the snapshot field main assigns from the join of worker w
FieldOf(i, w) == CASE w = "shell" -> i.shell [] w = "theme" -> i.theme [] w = "icons" -> i.icons

\* C7: shell, theme and icons are written, and read into the info lines, only
\* after the join of their worker has returned, which it does only once the
\* worker has ended; no info line is built and no row printed before all three
\* joins.
C7_FieldsReadAfterJoin ==
    /\ \A w \in Workers :
          /\ (AfterJoin(w) \/ w \in joined) => Settled(w)
          /\ FieldOf(info, w) # FieldOf(NoInfo, w) => (w \in joined /\ Settled(w))
    /\ info_lines # <<>> => (joined = Workers /\ \A w \in Workers : Settled(w))
    /\ rows > 0 => (joined = Workers /\ info_lines # <<>>)

C7_Witness ==
    /\ pc = "print_rows"
    /\ rows = 1
    /\ joined = Workers
    /\ worker["theme"].state = "returned"
    /\ info_lines[10].value = worker["theme"].val

\* n is the bare executable name of path: the part after its last '/', or all
\* of it when it has none
IsBareName(n, path) ==
    /\ \A i \in 1..Len(n) : n[i] # "/"
    /\ \E k \in 0..Len(path) :
          /\ SubSeq(path, k + 1, Len(path)) = n
          /\ k = 0 \/ path[k] = "/"

\* the snapshot without the three fields the joins assign
MainFields(i) == [i EXCEPT !.shell = <<>>, !.theme = "", !.icons = ""]

\* C8: a panicked worker's join yields the fallback (the bare shell name;
\* "Unknown" for theme and icons), a returned worker's join yields its value,
\* whatever the other workers did, and the joins leave the fields collected on
\* the main thread as they were.
C8_PanicYieldsFallback ==
    /\ "shell" \in joined =>
          IF worker["shell"].state = "panicked" THEN IsBareName(info.shell, shell_path)
          ELSE info.shell = worker["shell"].val
    /\ \A w \in {"theme", "icons"} :
          w \in joined =>
              FieldOf(info, w) = IF worker[w].state = "panicked" THEN "Unknown"
                                 ELSE worker[w].val
    /\ pc \in {"join_shell", "join_theme", "join_icons", "build_lines", "print_rows",
               "print_elapsed", "done"} => MainFields(info) = MainFields(collected)

C8_Witness ==
    /\ pc = "done"
    /\ worker["shell"].state = "panicked"
    /\ worker["theme"].state = "returned"
    /\ worker["icons"].state = "panicked"
    /\ shell_path = <<"/", "b", "i", "n", "/", "z", "s", "h">>
    /\ info.shell = <<"z", "s", "h">>
    /\ info.theme = "Adwaita"
    /\ info.icons = "Unknown"

\* C9: every fair run prints all rows and the elapsed-time line, whatever the
\* sources and the workers do.
C9_AlwaysPrints == <>(pc = "done" /\ rows = max_lines /\ rows > 0 /\ elapsed_shown)

\* the parts of C10 that hold of the code: the initialiser runs at most once,
\* every lookup finds the cell initialised, and a lookup now returns what any
\* earlier lookup of that name returned
C10_CacheState ==
    /\ ENV_CACHE.runs <= 1
    /\ ENV_CACHE.init <=> ENV_CACHE.runs = 1
    /\ \A i \in 1..Len(lookups) :
          /\ lookups[i].cell_ready
          /\ ENV_CACHE.init
          /\ lookups[i].value = get_env_var(ENV_CACHE, lookups[i].name, lookups[i].default)

\* C10 as claimed: one initialisation, complete before any other thread exists
\* and before any lookup, and the same value for a name at any two lookups.
C10_InitBeforeThreads ==
    /\ C10_CacheState
    /\ (\E w \in Workers : worker[w].state # "unspawned") => ENV_CACHE.init

\* C10, amended: one initialisation, complete before any lookup runs (the
\* worker threads exist by then but do not touch the cache); once initialised
\* the contents never change, so lookups of a name agree.
C10_InitOnceBeforeLookups ==
    /\ []C10_CacheState
    /\ [][ENV_CACHE.init => ENV_CACHE' = ENV_CACHE]_vars

C10_Witness ==
    /\ pc = "done"
    /\ Len(lookups) = 3
    /\ ENV_CACHE.runs = 1
    /\ lookups[2].value = "wayland"

(***************************************************************************)
(* Theme detection on its own                                              *)
(***************************************************************************)
restVars == <<logoVars, edidVars, memVars, mainVars, drmVars, artVars>>
RestIdle == LogoIdle /\ EdidIdle /\ MemIdle /\ MainIdle /\ DrmIdle /\ ArtIdle

InitTheme ==
    /\ mode = "theme"
    /\ RestIdle
    /\ CpuIdle /\ DistroIdle /\ ScanIdle /\ NumberIdle
    /\ \E kind \in {"theme", "icons"}, env \in ThemeVariables, desktop \in Desktops :
          LET paths == IF kind = "theme" THEN THEME_CONFIG_PATHS ELSE ICON_CONFIG_PATHS
          IN  \E choice \in {c \in [1..Len(paths) -> {"missing", "empty", "value"}] :
                                 \A i \in 3..Len(paths) :
                                    c[i] = "empty" => paths[i].file_name = "index.theme"} :
              \E pick \in [1..Len(desktop.asks) -> 1..4] :
                 LET tools == [c \in Commands |->
                                  IF \E i \in 1..Len(desktop.asks) : desktop.asks[i] = c
                                  THEN Outcomes(c)[pick[CHOOSE i \in 1..Len(desktop.asks) :
                                                            desktop.asks[i] = c]]
                                  ELSE Outcomes(c)[4]]
                 IN
                 theme_setup =
                    [kind |-> kind, env |-> env, desktop |-> desktop.text,
                     asks |-> desktop.asks, tools |-> tools,
                     files |-> [i \in 1..Len(paths) |-> ConfigFile(kind, i, choice[i]).content],
                     holds |-> [i \in 1..Len(paths) |-> ConfigFile(kind, i, choice[i]).holds]]
    /\ theme_found = [value |-> <<>>, consulted |-> <<>>]

\* the body of a detection thread
DetectTheme ==
    /\ mode = "theme"
    /\ mode' = "detected"
    /\ theme_found' = detect_internal(theme_setup.kind, theme_setup)
    /\ UNCHANGED <<theme_setup, restVars, cpuVars, distroVars, scanVars, numberVars>>

NextTheme == DetectTheme

SpecTheme == InitTheme /\ [][NextTheme]_vars

\* what the tools of the desktop answer: the first command asked, or the
\* second when the first ran without an answer
ToolAnswer(s) ==
    IF s.asks = <<>> THEN None
    ELSE IF s.tools[s.asks[1]].answer.some THEN s.tools[s.asks[1]].answer
    ELSE IF Len(s.asks) > 1 /\ s.tools[s.asks[1]].spawned THEN s.tools[s.asks[2]].answer
    ELSE None

ConfigPaths(s) == IF s.kind = "theme" THEN THEME_CONFIG_PATHS ELSE ICON_CONFIG_PATHS

\* the configuration paths among the sources consulted, in order
PathsConsulted(s, r) ==
    SelectSeq(r.consulted, LAMBDA c : \E i \in 1..Len(ConfigPaths(s)) : ConfigPaths(s)[i].path = c)

\* C24: the detection returns the variable when it is set and not empty,
\* consulting nothing; else the answer of the desktop's query tool, reading no
\* configuration file; else the value of the first configuration file in list
\* order that has one, reading the files before it and none after; else
\* "Unknown"; and never the empty string.
C24_FallbackOrder ==
    mode = "detected" =>
        LET s == theme_setup
            r == theme_found
            from_env == s.env.some /\ s.env.val # <<>>
            tool == ToolAnswer(s)
            yielding == {i \in 1..Len(s.holds) : s.holds[i].some}
            first == CHOOSE i \in yielding : \A j \in yielding : i <= j
        IN  /\ r.value # <<>>
            /\ from_env => r.value = s.env.val /\ r.consulted = <<>>
            /\ (~from_env /\ tool.some) => r.value = tool.val /\ PathsConsulted(s, r) = <<>>
            /\ (~from_env /\ ~tool.some /\ yielding # {}) =>
                  /\ r.value = s.holds[first].val
                  /\ PathsConsulted(s, r) = [i \in 1..first |-> ConfigPaths(s)[i].path]
            /\ (~from_env /\ ~tool.some /\ yielding = {}) => r.value = Unknown

\* GTK_THEME is set but empty, the KDE commands run without an answer, and the
\* third file of the list is the first with a value
C24_Witness ==
    /\ mode = "detected"
    /\ theme_setup.kind = "theme"
    /\ theme_setup.env = Some(<<>>)
    /\ theme_setup.holds[1] = None /\ theme_setup.holds[2] = None
    /\ theme_setup.holds[4].some
    /\ theme_found.value = <<"T", "3">>
    /\ theme_found.consulted = <<"kreadconfig5", "kreadconfig", "~/.gtkrc-2.0",
                                 "~/.config/gtk-3.0/settings.ini",
                                 "~/.config/gtk-4.0/settings.ini">>

(***************************************************************************)
(* The CPU label on its own                                                *)
(***************************************************************************)
InitCpu ==
    /\ mode = "cpu"
    /\ RestIdle
    /\ ThemeIdle /\ DistroIdle /\ ScanIdle /\ NumberIdle
    /\ \E n \in 0..MaxModelPieces : \E f \in [1..n -> 1..Len(ModelPieces)] :
          cpuinfo_model = Concat([i \in 1..n |-> ModelPieces[f[i]]])
    /\ model_name = <<>>

\* os.rs 110-142: the model line was found and model_name is set
CutLabel ==
    /\ mode = "cpu"
    /\ mode' = "labelled"
    /\ model_name' = CutCoreCount(cpuinfo_model)
    /\ UNCHANGED <<cpuinfo_model, restVars, themeVars, distroVars, scanVars, numberVars>>

NextCpu == CutLabel

SpecCpu == InitCpu /\ [][NextCpu]_vars

\* the marker starts at offset n of t and not before
MarkerFirstAt(t, n) == Find(t, core_marker) = n

\* the last token of s, after its last space, is a non-empty run of digits
EndsWithCount(s) ==
    \E k \in 1..Len(s) :
       /\ s[k] = " "
       /\ k < Len(s)
       /\ \A i \in (k + 1)..Len(s) : IsDigit(s[i])

\* C25 as stated: a count before the marker goes with its space and the
\* marker, otherwise the marker alone goes; the rest of the string is kept.
C25_OnlyMarkerRemoved ==
    mode = "labelled" =>
        LET t == Trim(cpuinfo_model)
            at == Find(t, core_marker)
            before == SubSeq(t, 1, at)
            rest == SubSeq(t, at + Len(core_marker) + 1, Len(t))
            k == CHOOSE k \in 1..Len(before) : before[k] = " " /\ \A i \in (k + 1)..Len(before) :
                                                                   before[i] # " "
        IN  IF at < 0 THEN model_name = t
            ELSE IF EndsWithCount(before) THEN model_name = SubSeq(before, 1, k - 1) \o rest
            ELSE model_name = before \o rest

\* C25, amended: the label ends where the count's space, or else the marker,
\* begins; what follows the marker is dropped.
C25_CutAtMarker ==
    mode = "labelled" =>
        LET t == Trim(cpuinfo_model)
            n == Len(model_name)
            after == SubSeq(t, n + 1, Len(t))
            digits == SkipDigits(after, 1)
        IN  /\ StartsWith(t, model_name)
            /\ Find(t, core_marker) < 0 => model_name = t
            /\ Find(t, core_marker) >= 0 =>
                  \/ /\ after # <<>> /\ after[1] = " "
                     /\ digits > 1
                     /\ MarkerFirstAt(t, n + digits)
                  \/ /\ MarkerFirstAt(t, n)
                     /\ ~EndsWithCount(model_name)

\* a count before the marker and a word after it: both are dropped
C25_Witness ==
    /\ mode = "labelled"
    /\ cpuinfo_model = <<"R", "7", " ", "8", "-", "C", "o", "r", "e", " ", "P">>
    /\ model_name = <<"R", "7">>

(***************************************************************************)
(* The distribution name on its own                                        *)
(***************************************************************************)
InitDistro ==
    /\ mode = "distro"
    /\ RestIdle
    /\ ThemeIdle /\ CpuIdle /\ ScanIdle /\ NumberIdle
    /\ \E existing \in SUBSET {MarkerFiles[i].path : i \in 1..Len(MarkerFiles)} :
          \/ release_files = [os_release |-> None, existing |-> existing, lines |-> <<>>]
          \/ \E n \in 0..MaxReleaseLines : \E f \in [1..n -> 1..Len(ReleaseLines)] :
                /\ \A i \in 1..(n - 1) : f[i] # Len(ReleaseLines)
                /\ release_files =
                      [os_release |-> Some(Concat([i \in 1..n |-> ReleaseLines[f[i]].text])),
                       existing |-> existing,
                       lines |-> [i \in 1..n |-> ReleaseLines[f[i]]]]
    /\ distribution = <<>>

\* os.rs 28: the first use of DISTRO_NAME runs get_distribution_name
GetDistributionName ==
    /\ mode = "distro"
    /\ mode' = "named"
    /\ distribution' = get_distribution_name(release_files)
    /\ UNCHANGED <<release_files, restVars, themeVars, cpuVars, scanVars, numberVars>>

NextDistro == GetDistributionName

SpecDistro == InitDistro /\ [][NextDistro]_vars

\* the lines of the release file whose key is exactly k
WithKey(k) == {i \in 1..Len(release_files.lines) : release_files.lines[i].key = k}

FirstOf(is) == CHOOSE i \in is : \A j \in is : i <= j

\* C26: a line with the key NAME gives its value, whatever keys ending in NAME
\* come before it; without one, a line with the key ID gives its value
\* capitalised and followed by " Linux"; an unreadable release file gives the
\* name of the first marker file that exists, else "Linux".
C26_ExactNameKey ==
    mode = "named" =>
        LET f == release_files
            marker == {i \in 1..Len(MarkerFiles) : MarkerFiles[i].path \in f.existing}
        IN  IF ~f.os_release.some
            THEN distribution = IF marker # {} THEN MarkerFiles[FirstOf(marker)].name
                                ELSE <<"L", "i", "n", "u", "x">>
            ELSE /\ WithKey("NAME") # {} =>
                       distribution = f.lines[FirstOf(WithKey("NAME"))].value
                 /\ (WithKey("NAME") = {} /\ WithKey("ID") # {}) =>
                       distribution = <<UpperOf(Head(f.lines[FirstOf(WithKey("ID"))].value))>>
                                         \o Tail(f.lines[FirstOf(WithKey("ID"))].value)
                                         \o <<" ", "L", "i", "n", "u", "x">>

(***************************************************************************)
(* The scan loops on their own                                             *)
(***************************************************************************)
InitScan ==
    /\ mode = "scan"
    /\ RestIdle
    /\ ThemeIdle /\ CpuIdle /\ DistroIdle /\ NumberIdle
    /\ \/ \E text \in MeminfoTexts : \E n \in 0..Len(text) :
             /\ scan_input = [scanner |-> "parse_meminfo", data |-> SubSeq(text, 1, n)]
             /\ scan = [pos |-> 0, top |-> -1, iterations |-> 0, exit |-> FALSE,
                        done |-> FALSE, total |-> ZeroBytes, free |-> ZeroBytes,
                        available |-> ZeroBytes]
       \/ \E text \in CpuinfoTexts : \E n \in 0..Len(text) :
             /\ scan_input = [scanner |-> "parse_cpu_info", data |-> SubSeq(text, 1, n)]
             /\ scan = [pos |-> 0, top |-> -1, iterations |-> 0, exit |-> FALSE,
                        done |-> FALSE, model_name |-> <<>>, cpu_mhz |-> NoFrequency]

\* the loop test and, when it passes, one iteration of the body
ScanStep ==
    /\ mode = "scan"
    /\ ~scan.done
    /\ IF scan.pos < Len(scan_input.data) /\ ~scan.exit
       THEN LET next == IF scan_input.scanner = "parse_meminfo"
                        THEN MemIteration(scan_input.data, scan)
                        ELSE CpuIteration(scan_input.data, scan)
            IN  scan' = [next EXCEPT !.iterations = scan.iterations + 1]
       ELSE scan' = [scan EXCEPT !.done = TRUE]
    /\ UNCHANGED <<mode, scan_input, restVars, themeVars, cpuVars, distroVars, numberVars>>

NextScan == ScanStep

SpecScan == InitScan /\ [][NextScan]_vars

\* C29: on every buffer both scanners end: each iteration of their loops
\* starts below the length and moves the position forward, so there are at
\* most as many iterations as bytes; and no index at or beyond the length is
\* read.
C29_ScannersTerminate ==
    /\ [](mode = "scan" => /\ scan.top < Len(scan_input.data)
                           /\ scan.pos <= Len(scan_input.data) + 1
                           /\ scan.iterations <= Len(scan_input.data))
    /\ [][scan'.iterations > scan.iterations
              => scan.pos < Len(scan_input.data) /\ scan'.pos > scan.pos]_vars
    /\ [][scan'.done => scan.pos >= Len(scan_input.data) \/ scan.exit]_vars

\* parse_meminfo has ended on a buffer whose last bytes are a label, having
\* read its last byte
C29_Witness ==
    /\ mode = "scan"
    /\ scan_input.scanner = "parse_meminfo"
    /\ EndsWith(scan_input.data, mem_total_tag)
    /\ scan.done
    /\ scan.iterations > 1
    /\ scan.top = Len(scan_input.data) - 1

(***************************************************************************)
(* Number parsing on its own                                               *)
(***************************************************************************)
InitNumber ==
    /\ mode = "number"
    /\ RestIdle
    /\ ThemeIdle /\ CpuIdle /\ DistroIdle /\ ScanIdle
    /\ \E n \in 0..MaxNumberPieces : \E f \in [1..n -> 1..Len(NumberPieces)] :
          LET buffer == Concat([i \in 1..n |-> NumberPieces[f[i]]])
          IN  \E offset \in 0..(Len(buffer) + 1) :
                 number_input = [data |-> buffer, offset |-> offset]
    /\ number = Ok(None)

\* a call of parse_number_after, in a build with or without overflow checks
ParseNumberAfter ==
    /\ mode = "number"
    /\ mode' = "returned"
    /\ \E checked \in BOOLEAN :
          number' = parse_number_after(number_input.data, number_input.offset, checked)
    /\ UNCHANGED <<number_input, restVars, themeVars, cpuVars, distroVars, scanVars>>

NextNumber == ParseNumberAfter

SpecNumber == InitNumber /\ [][NextNumber]_vars

\* a u64 divided by ten: quotient and remainder
DivTen(value) ==
    LET c4 == value[4]
        c3 == (c4 % 10) * Limb + value[3]
        c2 == (c3 % 10) * Limb + value[2]
        c1 == (c2 % 10) * Limb + value[1]
    IN  [quotient |-> <<c1 \div 10, c2 \div 10, c3 \div 10, c4 \div 10>>, remainder |-> c1 % 10]

\* the decimal digits of a u64
RECURSIVE ToDecimal(_)
ToDecimal(value) ==
    LET d == DivTen(value)
    IN  IF d.quotient = ZeroU64 THEN <<Digits[d.remainder + 1]>>
        ELSE Append(ToDecimal(d.quotient), Digits[d.remainder + 1])

\* a run of digits without its leading zeros
RECURSIVE Canonical(_)
Canonical(run) == IF Len(run) > 1 /\ Head(run) = "0" THEN Canonical(Tail(run)) ELSE run

\* C30: parse_number_after skips blanks and tabs from offset; without a digit
\* there it returns nothing, otherwise the integer that the longest run of
\* digits denotes and the index just past the run.
C30_ValueOfDigitRun ==
    mode = "returned" =>
        LET d == number_input.data
            start == SkipBlanks(d, number_input.offset)
            end == SkipDigits(d, start)
        IN  /\ ~number.fault
            /\ IF end = start THEN number.ret = None
               ELSE /\ number.ret.some
                    /\ number.ret.val.pos = end
                    /\ ToDecimal(number.ret.val.value) = Canonical(SubSeq(d, start + 1, end))

\* main.rs 450-452: Lazy::force and collect_system_info, statement by statement
Acquiring == pc \in {"force_cache", "uname", "env_de", "env_session", "env_term", "sources"}

\* main.rs 454-457
AtJoin == pc \in {"join_shell", "join_theme", "join_icons"}

\* C23: the three workers are spawned before main starts its own acquisition,
\* no join happens before that acquisition has finished, and main can run at
\* every statement other than the three joins.
C23_SpawnAcquireJoin ==
    /\ (Acquiring \/ AtJoin) => \A w \in Workers : worker[w].state # "unspawned"
    /\ (\E w \in Workers : worker[w].state = "unspawned") => joined = {}
    /\ Acquiring => joined = {}
    /\ joined # {} => collected # NoInfo
    /\ (~AtJoin /\ pc \notin {"done", "panicked"}) => ENABLED MainStep

\* main waits at the second join, after its acquisition, for a running worker
C23_Witness ==
    /\ pc = "join_theme"
    /\ joined = {"shell"}
    /\ collected # NoInfo
    /\ worker["theme"].state = "running"
    /\ ~ENABLED MainStep

====
